---- MODULE Spec2Model ----
(***************************************************************************)
(* A model of brainrender/atlases/aba.py: the ABA atlas adapter.           *)
(*                                                                         *)
(* Every public method is one action: a call is atomic (the module is      *)
(* single threaded and synchronous), its arguments are drawn from bounded  *)
(* sets, and what the call did (its return value or the exception it       *)
(* raised, and every object it changed) is left in the state.              *)
(***************************************************************************)
EXTENDS Integers, Sequences, FiniteSets, TLC

VARIABLES
    op,                 \* the method that ran last ("init" before any call)
    args,               \* the arguments of that call
    status,             \* "ok", or the exception class the call raised
    ret,                \* the value the call returned (NoneV when it raised)
    effects,            \* what the call did to its collaborators and inputs
    p0,                 \* the caller's point: a mutable list of 3 coordinates
    prev,               \* the previous lookup of p0: [just_acronym, ret]
    annotated_volume,   \* ABA.annotated_volume, set by __init__
    structure_tree,     \* ABA.structure_tree, set by __init__
    region_acronyms,    \* ABA.region_acronyms, set by __init__ (None if offline)
    obj_files           \* the mesh files that exist under meshes_folder

vars == <<op, args, status, ret, effects, p0, prev, annotated_volume,
          structure_tree, region_acronyms, obj_files>>

-----------------------------------------------------------------------------
(* Python values. Every value carries its type, as isinstance() sees it.   *)

NoneV == [t |-> "none", v |-> <<>>]
Str(s) == [t |-> "str", v |-> s]
Num(n) == [t |-> "num", v |-> n]
Bool(b) == [t |-> "bool", v |-> b]
List(s) == [t |-> "list", v |-> s]
Tup(s) == [t |-> "tuple", v |-> s]
Dict(f) == [t |-> "dict", v |-> f]
\* a vtkplotter Mesh ("Actor"), identified by the object it is
ActorV(id) == [t |-> "actor", v |-> id]
\* a value of the brainrender package configuration, named, content unknown
Cfg(name) == [t |-> "cfg", v |-> name]

IsNone(x) == x.t = "none"
IsSeq(x) == x.t \in {"list", "tuple"}
Keys(d) == DOMAIN d.v

\* [e for i in range(n)]
Repeat(e, n) == [i \in 1..n |-> e]

-----------------------------------------------------------------------------
(* Sizes of the model.                                                     *)

\* shape of the annotation volume, in voxels
DimX == 3
DimY == 2
DimZ == 2

\* ABA.resolution
resolution == 25

\* coordinates are fixed-point numbers: CoordScale steps per unit
CoordScale == 2

-----------------------------------------------------------------------------
(* The structure tree and the annotation volume, as __init__ leaves them.  *)

\* one structure of the ontology; rgb components are 0 or 255
Structure(id, acronym, parent, rgb) ==
    [id |-> id, acronym |-> acronym, parent |-> parent, rgb_triplet |-> rgb]

TreeNodes ==
    { Structure(1, "root", 0, <<255, 255, 255>>),
      Structure(2, "grey", 1, <<255, 255, 0>>),
      Structure(3, "CTX", 2, <<0, 255, 0>>),
      Structure(4, "MOs", 3, <<0, 255, 255>>),
      Structure(5, "TH", 2, <<255, 0, 0>>),
      Structure(6, "VPM", 5, <<255, 0, 255>>) }

\* structure_tree.get_structures_by_id([id])[0]: None for an id the tree lacks
get_structures_by_id(tree, id) ==
    IF \E s \in tree : s.id = id
    THEN Dict(CHOOSE s \in tree : s.id = id)
    ELSE NoneV

\* structure_tree.get_structures_by_acronym([acronym])[0]: None stands for
\* the KeyError of an acronym the tree lacks
get_structures_by_acronym(tree, acronym) ==
    IF \E s \in tree : s.acronym = acronym
    THEN Dict(CHOOSE s \in tree : s.acronym = acronym)
    ELSE NoneV

\* lines 94-97: the acronyms of the structures that have a mesh, sorted
MeshAcronyms == List(<<Str("CTX"), Str("MOs"), Str("TH"), Str("VPM"), Str("root")>>)

\* the voxel grid; every voxel holds its own id, so voxels can be told apart
Voxels == (0..(DimX - 1)) \X (0..(DimY - 1)) \X (0..(DimZ - 1))

InitVolume ==
    [x \in Voxels |-> x[1] + DimX * (x[2] + DimY * x[3])]

-----------------------------------------------------------------------------
(* get_structure_from_coordinates                                          *)

\* astype(int) without np.round: the quotient truncated toward zero
RoundDiv_truncates(c, d) ==
    LET m == CoordScale * d
    IN  IF c >= 0 THEN c \div m ELSE 0 - ((0 - c) \div m)

\* np.round of c / (CoordScale * d): to the nearest integer, halves to even
RoundDiv(c, d) ==
    LET m == CoordScale * d
        q == c \div m
        r == c % m
    IN  IF 2 * r < m THEN q
        ELSE IF 2 * r > m THEN q + 1
        ELSE IF q % 2 = 0 THEN q ELSE q + 1

\* np.round(np.array(p0) / self.resolution).astype(int)
VoxelOf(p) == [i \in 1..3 |-> RoundDiv(p[i], resolution)]

\* numpy indexing along one axis of length n: -n..-1 count from the end,
\* anything else outside 0..n-1 raises IndexError
AxisIndex(i, n) ==
    IF 0 <= i /\ i < n THEN i
    ELSE IF -n <= i /\ i < 0 THEN n + i
    ELSE -1

\* self.annotated_volume[voxel[0], voxel[1], voxel[2]]; -1 for IndexError
VolumeAt(volume, voxel) ==
    LET i == AxisIndex(voxel[1], DimX)
        j == AxisIndex(voxel[2], DimY)
        k == AxisIndex(voxel[3], DimZ)
    IN  IF i < 0 \/ j < 0 \/ k < 0 THEN -1 ELSE volume[<<i, j, k>>]

\* the lookup with the voxel index written back into the caller's point
get_structure_from_coordinates_in_place(volume, tree, point, just_acronym) ==
    LET voxel == VoxelOf(point)
        structure_id == VolumeAt(volume, voxel)
        structure == get_structures_by_id(tree, structure_id)
        out == IF structure_id < 0 THEN NoneV
               ELSE IF ~IsNone(structure) /\ just_acronym
                    THEN Str(structure.v.acronym)
               ELSE structure
    IN  [ret |-> out, p0 |-> voxel, annotated_volume |-> volume,
         structure_tree |-> tree]

\* the whole method: its return value and the objects it was handed, after
get_structure_from_coordinates(volume, tree, point, just_acronym) ==
    LET voxel == VoxelOf(point)
        structure_id == VolumeAt(volume, voxel)
        structure == get_structures_by_id(tree, structure_id)
        out == IF structure_id < 0 THEN NoneV
               ELSE IF ~IsNone(structure) /\ just_acronym
                    THEN Str(structure.v.acronym)
               ELSE structure
    IN  [ret |-> out, p0 |-> point, annotated_volume |-> volume,
         structure_tree |-> tree]

-----------------------------------------------------------------------------
(* The points a caller looks up: around every voxel boundary of every      *)
(* axis, from below the most negative index numpy accepts to above the     *)
(* largest, exactly on a voxel centre, half way between two and close to   *)
(* half way.                                                               *)

CoordStep == CoordScale * resolution

AxisCoords(n) ==
    { CoordStep * k + d : k \in (0 - (n + 1))..(n + 1),
                          d \in {0 - (CoordStep \div 2), 0, (CoordStep \div 2) - 1} }

Points == AxisCoords(DimX) \X AxisCoords(DimY) \X AxisCoords(DimZ)

NoCall == [just_acronym |-> FALSE, ret |-> Str("<no call>")]

InitCoords ==
    /\ op = "init"
    /\ args = <<>>
    /\ status = "ok"
    /\ ret = NoneV
    /\ effects = <<>>
    /\ p0 \in Points
    /\ prev = NoCall
    /\ annotated_volume = InitVolume
    /\ structure_tree = TreeNodes
    /\ region_acronyms = MeshAcronyms
    /\ obj_files = {}

\* atlas.get_structure_from_coordinates(p0, just_acronym)
Lookup ==
    \E just_acronym \in BOOLEAN :
        LET r == get_structure_from_coordinates(annotated_volume, structure_tree,
                                                p0, just_acronym)
        IN  /\ op' = "get_structure_from_coordinates"
            /\ args' = [just_acronym |-> just_acronym]
            /\ status' = "ok"
            /\ ret' = r.ret
            /\ effects' = <<>>
            /\ p0' = r.p0
            /\ prev' = IF op = "get_structure_from_coordinates"
                       THEN [just_acronym |-> args.just_acronym, ret |-> ret]
                       ELSE NoCall
            /\ annotated_volume' = r.annotated_volume
            /\ structure_tree' = r.structure_tree
            /\ UNCHANGED <<region_acronyms, obj_files>>

NextCoords == Lookup

SpecCoords == InitCoords /\ [][NextCoords]_vars

-----------------------------------------------------------------------------
(* get_neurons: the colors                                                 *)

\* the most neurons in one call
MaxNeurons == 2

\* brainrender.colors._mapscales_cmaps: the names that are colormaps
mapscales_cmaps == {"viridis"}

\* getColor(name): the color a name stands for, as an rgb value
getColor(color) == [t |-> "rgb_of", v |-> color.v]

\* colorMap(n, name=color, vmin=-2, vmax=N+2): the n-th color of a colormap
colorMap(n, name, N) == [t |-> "cmap_color", v |-> <<name, n, N>>]

\* get_random_colors(N): N colors drawn at random
get_random_colors(N) == [n \in 1..N |-> [t |-> "random_color", v |-> n]]

\* dict(soma = cols.copy(), axon = cols.copy(), dendrites = cols.copy())
SameColors(cols) == [soma |-> cols, axon |-> cols, dendrites |-> cols]

\* colors as set up first: dict(soma = None, axon = None, dendrites = None)
NoColors == [soma |-> NoneV, axon |-> NoneV, dendrites |-> NoneV]

\* the outcome of preparing the colors: the exception raised (or "ok"), the
\* colors dict, and the caller's color argument as the code left it
Prepared(st, colors, color) == [status |-> st, colors |-> colors, color |-> color]

\* d.pop(key, default), the value taken
PopOr(d, key, default) == IF key \in Keys(d) THEN d.v[key] ELSE default

\* d after d.pop(key, ...) for every key of ks
Without(d, ks) == Dict([k \in Keys(d) \ ks |-> d.v[k]])

\* a color list taken as it comes: its length and its elements' types
\* are not checked
ListColors_unchecked(color, N) ==
    IF color.v = <<>>
    THEN Prepared("IndexError", NoColors, color)
    ELSE IF color.v[1].t = "dict"
    THEN Prepared("AttributeError", NoColors, color)
    ELSE IF color.t = "tuple"
    THEN Prepared("AttributeError", NoColors, color)
    ELSE Prepared("ok", SameColors(color.v), color)

\* lines 284-315: color is a list or a tuple
ListColors(color, N) ==
    IF Len(color.v) # N
    THEN Prepared("ValueError", NoColors, color)
    ELSE IF Cardinality({color.v[i].t : i \in 1..Len(color.v)}) > 1
    THEN Prepared("ValueError", NoColors, color)
    \* color[0] of an empty list
    ELSE IF color.v = <<>>
    THEN Prepared("IndexError", NoColors, color)
    \* "for col in colors": colors is the dict set up first, so col is its
    \* first key, the str 'soma', and col.keys() raises
    ELSE IF color.v[1].t = "dict"
    THEN Prepared("AttributeError", NoColors, color)
    \* color.copy(): a tuple has no copy()
    ELSE IF color.t = "tuple"
    THEN Prepared("AttributeError", NoColors, color)
    ELSE Prepared("ok", SameColors(color.v), color)

\* lines 320-324: every entry of colors must hold N colors
CheckColors(p, N) ==
    IF p.status = "ok" /\ \E k \in {"soma", "axon", "dendrites"} : Len(p.colors[k]) # N
    THEN Prepared("ValueError", p.colors, p.color)
    ELSE p

\* lines 247-318: colors[part][n] is the color of that part of neuron n
ColorsFor(color, N) ==
    IF IsNone(color)
    THEN Prepared("ok", SameColors(get_random_colors(N)), color)
    ELSE IF color.t = "str"
    THEN IF color.v \in mapscales_cmaps
         THEN Prepared("ok", SameColors([n \in 1..N |-> colorMap(n - 1, color.v, N)]),
                       color)
         ELSE Prepared("ok", SameColors(Repeat(getColor(color), N)), color)
    ELSE IF color.t = "dict"
    THEN IF "soma" \notin Keys(color)
         THEN Prepared("ValueError", NoColors, color)
         ELSE Prepared("ok",
                       [soma |-> Repeat(color.v["soma"], N),
                        axon |-> Repeat(PopOr(color, "axon", color.v["soma"]), N),
                        dendrites |-> Repeat(PopOr(color, "dendrites", color.v["soma"]), N)],
                       Without(color, {"dendrites", "axon"}))
    ELSE IF IsSeq(color)
    THEN ListColors(color, N)
    ELSE Prepared("ValueError", NoColors, color)

\* lines 239-324: "Prepare colors"
PrepareColors(color, N) == CheckColors(ColorsFor(color, N), N)

-----------------------------------------------------------------------------
(* get_neurons: the neurons                                                *)

\* the mesh objects of the n-th neuron of a call, one per part it may have
Mesh(n, part) ==
    ActorV(<<10 * n + CASE part = "soma" -> 1
                        [] part = "axon" -> 2
                        [] part = "dendrites" -> 3
                        [] part = "apical_dendrites" -> 4
                        [] part = "basal_dendrites" -> 5
                        [] part = "whole" -> 6
                        [] part = "swc_soma" -> 7
                        [] part = "swc_axon" -> 8
                        [] part = "swc_dendrites" -> 9>>)

\* a morphapi Neuron object
NeuronObj == [t |-> "Neuron", v |-> <<>>]

\* the files os.path.isfile finds, and the names that end with ".swc"
FilesOnDisk == {"cell.swc", "cell.json"}
SwcNames == {"cell.swc", "missing.swc"}

\* {'soma': None, 'dendrites': None, 'axon': None}
NoActors == [soma |-> NoneV, dendrites |-> NoneV, axon |-> NoneV]

\* get_neuron_actors_with_morphapi(...)[0] for the n-th neuron
get_neuron_actors_with_morphapi(n) ==
    [soma |-> Mesh(n, "swc_soma"), dendrites |-> Mesh(n, "swc_dendrites"),
     axon |-> Mesh(n, "swc_axon")]

\* what the loop body made of one neuron: the exception raised (or "ok"),
\* neuron_actors, and the caller's neuron as the code left it
Rendered(st, actors, neuron) == [status |-> st, actors |-> actors, neuron |-> neuron]

\* lines 350-363: the neuron is a dict of actors
DictActors(neuron) ==
    LET soma == PopOr(neuron, "soma", NoneV)
        axon == PopOr(neuron, "axon", NoneV)
        popped == Without(neuron, {"soma", "axon"})
        keys == Keys(neuron)
    IN  IF "apical_dendrites" \in keys \/ "basal_dendrites" \in keys
        THEN IF "apical_dendrites" \notin keys
             THEN Rendered("ok", [soma |-> soma, axon |-> axon,
                                  dendrites |-> neuron.v["basal_dendrites"]], popped)
             ELSE IF "basal_dendrites" \notin keys
             THEN Rendered("ok", [soma |-> soma, axon |-> axon,
                                  dendrites |-> neuron.v["apical_dendrites"]], popped)
             \* line 361 assigns into neuron_ctors, a name that does not exist
             ELSE Rendered("NameError", [soma |-> soma, axon |-> axon,
                                         dendrites |-> NoneV], popped)
        ELSE Rendered("ok", [soma |-> soma, axon |-> axon,
                             dendrites |-> PopOr(neuron, "dendrites", NoneV)],
                      Without(neuron, {"soma", "axon", "dendrites"}))

\* lines 331-370: neuron_actors of the n-th neuron, by the type of the input
ActorsOf(neuron, n) ==
    IF neuron.t = "str"
    THEN IF neuron.v \in FilesOnDisk
         THEN IF neuron.v \in SwcNames
              THEN Rendered("ok", get_neuron_actors_with_morphapi(n), neuron)
              ELSE Rendered("NotImplementedError", NoActors, neuron)
         ELSE Rendered("ValueError", NoActors, neuron)
    ELSE IF neuron.t = "actor"
    THEN Rendered("ok", [NoActors EXCEPT !.soma = neuron], neuron)
    ELSE IF neuron.t = "dict"
    THEN DictActors(neuron)
    ELSE IF neuron.t = "Neuron"
    THEN Rendered("ok", get_neuron_actors_with_morphapi(n), neuron)
    ELSE Rendered("ValueError", NoActors, neuron)

\* lines 372-376: a part that is no Mesh; building the message of the
\* ValueError reads act.__type__, which no object has
CheckActors(r) ==
    IF r.status = "ok" /\ \E k \in {"soma", "dendrites", "axon"} :
                              r.actors[k].t \notin {"none", "actor"}
    THEN Rendered("AttributeError", r.actors, r.neuron)
    ELSE r

\* lines 378-381: the display toggles
Displayed(r, display_axon, display_dendrites) ==
    IF r.status # "ok" THEN r
    ELSE Rendered("ok",
                  [soma |-> r.actors.soma,
                   dendrites |-> IF display_dendrites THEN r.actors.dendrites ELSE NoneV,
                   axon |-> IF display_axon THEN r.actors.axon ELSE NoneV],
                  r.neuron)

\* lines 330-382: one turn of the loop over the neurons
RenderNeuron(neuron, n, display_axon, display_dendrites) ==
    Displayed(CheckActors(ActorsOf(neuron, n)), display_axon, display_dendrites)

\* the least element of a non-empty set of numbers
Min(S) == CHOOSE x \in S : \A y \in S : x <= y

\* the sequences of a sequence of sequences, one after the other
RECURSIVE Flatten(_)
Flatten(ss) == IF ss = <<>> THEN <<>> ELSE Head(ss) \o Flatten(Tail(ss))

\* lines 329-382: the loop over the neurons, which the first exception ends
RenderNeurons(neurons, display_axon, display_dendrites) ==
    LET N == Len(neurons)
        rendered == [n \in 1..N |->
                        RenderNeuron(neurons[n], n, display_axon, display_dendrites)]
        raised == {n \in 1..N : rendered[n].status # "ok"}
        stop == IF raised = {} THEN N + 1 ELSE Min(raised)
    IN  [status |-> IF raised = {} THEN "ok" ELSE rendered[stop].status,
         neurons_actors |-> [n \in 1..(stop - 1) |-> rendered[n].actors],
         neurons |-> [n \in 1..N |-> IF n <= stop THEN rendered[n].neuron
                                     ELSE neurons[n]]]

\* act.c(color), as the call it is
SetColor(act, color) == [actor |-> act, c |-> color]

\* lines 385-390 for the n-th neuron: the c() calls made, in their order;
\* neuron['soma'].c(...) is not guarded, and ends the pass when soma is None
ColorCalls(neuron, colors, n) ==
    (IF IsNone(neuron.axon) THEN <<>> ELSE <<SetColor(neuron.axon, colors.axon[n])>>)
    \o (IF IsNone(neuron.soma) THEN <<>>
        ELSE <<SetColor(neuron.soma, colors.soma[n])>>
             \o (IF IsNone(neuron.dendrites) THEN <<>>
                 ELSE <<SetColor(neuron.dendrites, colors.dendrites[n])>>))

\* lines 384-390: "Color actors"
ColorActors(neurons_actors, colors) ==
    LET N == Len(neurons_actors)
        raised == {n \in 1..N : IsNone(neurons_actors[n].soma)}
        stop == IF raised = {} THEN N ELSE Min(raised)
    IN  [status |-> IF raised = {} THEN "ok" ELSE "AttributeError",
         colored |-> Flatten([n \in 1..stop |->
                                ColorCalls(neurons_actors[n], colors, n)])]

\* a single neuron returned inside a list, like any other count
ReturnActors_always_list(neurons_actors) ==
    IF neurons_actors = <<>>
    THEN Tup(<<NoneV, NoneV>>)
    ELSE Tup(<<List([n \in 1..Len(neurons_actors) |-> Dict(neurons_actors[n])]), NoneV>>)

\* lines 392-398: "Return"
ReturnActors(neurons_actors) ==
    IF Len(neurons_actors) = 1
    THEN Tup(<<Dict(neurons_actors[1]), NoneV>>)
    ELSE IF neurons_actors = <<>>
    THEN Tup(<<NoneV, NoneV>>)
    ELSE Tup(<<List([n \in 1..Len(neurons_actors) |-> Dict(neurons_actors[n])]), NoneV>>)

\* what a call of get_neurons did: the exception raised (or "ok"), the value
\* returned, the records appended to _neurons_actors, the c() calls made, and
\* the caller's neurons and color as the call left them
NeuronsOutcome(st, value, neurons_actors, colored, neurons, color) ==
    [status |-> st, ret |-> value,
     effects |-> [neurons_actors |-> neurons_actors, colored |-> colored,
                  neurons |-> neurons, color |-> color]]

\* lines 236-237: a neuron that is no list or tuple is put in a list
AsNeuronList(neurons) == IF IsSeq(neurons) THEN neurons.v ELSE <<neurons>>

\* lines 213-398
get_neurons(neurons, color, display_axon, display_dendrites) ==
    LET ns == AsNeuronList(neurons)
        N == Len(ns)
        prepared == PrepareColors(color, N)
        rendered == RenderNeurons(ns, display_axon, display_dendrites)
        colored == ColorActors(rendered.neurons_actors, prepared.colors)
    IN  IF prepared.status # "ok"
        THEN NeuronsOutcome(prepared.status, NoneV, <<>>, <<>>, ns, prepared.color)
        ELSE IF rendered.status # "ok"
        THEN NeuronsOutcome(rendered.status, NoneV, rendered.neurons_actors, <<>>,
                            rendered.neurons, prepared.color)
        ELSE IF colored.status # "ok"
        THEN NeuronsOutcome(colored.status, NoneV, rendered.neurons_actors,
                            colored.colored, rendered.neurons, prepared.color)
        ELSE NeuronsOutcome("ok", ReturnActors(rendered.neurons_actors),
                            rendered.neurons_actors, colored.colored,
                            rendered.neurons, prepared.color)

-----------------------------------------------------------------------------
(* The calls of get_neurons that are made: every shape of neuron with a    *)
(* few colors, every shape of color with a few neurons, and tuples of      *)
(* neurons.                                                                *)

DictKeys == {"soma", "axon", "dendrites", "apical_dendrites", "basal_dendrites"}

\* every dict of meshes the n-th neuron can be: its dendrites come whole or
\* as apical and basal parts
DictNeurons(n) ==
    { Dict([k \in K |-> Mesh(n, k)]) :
        K \in { J \in SUBSET DictKeys :
                  "dendrites" \in J => J \cap {"apical_dendrites", "basal_dendrites"} = {} } }

\* every neuron the n-th neuron can be
AnyNeurons(n) ==
    DictNeurons(n)
    \cup { Dict([k \in {"soma"} |-> Str("not a mesh")]),
           Mesh(n, "whole"), Str("cell.swc"), Str("cell.json"), Str("missing.swc"),
           NeuronObj, Num(7) }

\* neurons of the shapes that render
PlainNeurons(n) ==
    { Mesh(n, "whole"),
      Dict([k \in {"soma", "axon", "dendrites"} |-> Mesh(n, k)]) }

RECURSIVE AnyNeuronLists(_)
AnyNeuronLists(len) ==
    IF len = 0 THEN {<<>>}
    ELSE {Append(ns, x) : ns \in AnyNeuronLists(len - 1), x \in AnyNeurons(len)}

RECURSIVE PlainNeuronLists(_)
PlainNeuronLists(len) ==
    IF len = 0 THEN {<<>>}
    ELSE {Append(ns, x) : ns \in PlainNeuronLists(len - 1), x \in PlainNeurons(len)}

AnyNeuronArgs ==
    AnyNeurons(1) \cup {List(ns) : ns \in UNION {AnyNeuronLists(len) : len \in 0..MaxNeurons}}

PlainNeuronArgs ==
    PlainNeurons(1)
    \cup {List(ns) : ns \in UNION {PlainNeuronLists(len) : len \in 0..MaxNeurons}}

TupleNeuronArgs ==
    {Tup(ns) : ns \in UNION {PlainNeuronLists(len) : len \in 0..MaxNeurons}}

\* the color a per-part dict gives each part
PartColor == [soma |-> Str("red"), axon |-> Str("blue"), dendrites |-> Str("green")]

DictColors == { Dict([k \in K |-> PartColor[k]]) : K \in SUBSET {"soma", "axon", "dendrites"} }

FewColorArgs == {NoneV, Dict(PartColor)}

\* what a list of colors is made of
ColorItems ==
    { Str("red"), Str("blue"), Tup(<<Num(0), Num(1), Num(0)>>),
      Dict([k \in {"soma"} |-> Str("black")]), Dict(PartColor) }

RECURSIVE ColorLists(_)
ColorLists(len) ==
    IF len = 0 THEN {<<>>}
    ELSE {Append(cs, x) : cs \in ColorLists(len - 1), x \in ColorItems}

AnyColorArgs ==
    {NoneV, Str("viridis"), Str("red"), Num(3)}
    \cup DictColors
    \cup {List(cs) : cs \in UNION {ColorLists(len) : len \in 0..(MaxNeurons + 1)}}
    \cup {Tup(cs) : cs \in UNION {ColorLists(len) : len \in 0..(MaxNeurons + 1)}}

NeuronCalls ==
    [neurons : AnyNeuronArgs, color : FewColorArgs,
     display_axon : BOOLEAN, display_dendrites : BOOLEAN]
    \cup [neurons : PlainNeuronArgs, color : AnyColorArgs,
          display_axon : BOOLEAN, display_dendrites : BOOLEAN]
    \cup [neurons : TupleNeuronArgs, color : FewColorArgs \cup {List(<<Str("red")>>)},
          display_axon : BOOLEAN, display_dendrites : BOOLEAN]

InitNeurons ==
    /\ op = "init"
    /\ args \in NeuronCalls
    /\ status = "ok"
    /\ ret = NoneV
    /\ effects = <<>>
    /\ p0 = <<0, 0, 0>>
    /\ prev = NoCall
    /\ annotated_volume = InitVolume
    /\ structure_tree = TreeNodes
    /\ region_acronyms = MeshAcronyms
    /\ obj_files = {}

\* atlas.get_neurons(neurons, color, display_axon, display_dendrites)
GetNeurons ==
    /\ op = "init"
    /\ LET r == get_neurons(args.neurons, args.color, args.display_axon,
                            args.display_dendrites)
       IN  /\ op' = "get_neurons"
           /\ status' = r.status
           /\ ret' = r.ret
           /\ effects' = r.effects
    /\ UNCHANGED <<args, p0, prev, annotated_volume, structure_tree, region_acronyms,
                   obj_files>>

NextNeurons == GetNeurons

SpecNeurons == InitNeurons /\ [][NextNeurons]_vars

-----------------------------------------------------------------------------
(* get_brain_regions                                                       *)

\* the most brain regions in one call
MaxRegions == 2

\* ABA.ignore_regions
ignore_regions == {"retina", "brain", "fiber tracts", "grey"}

\* the color names check_colors knows
ColorNames == {"red", "blue", "green"}

\* brainrender.colors.check_colors: a color name, a number, or a sequence
\* of valid colors (an rgb triple is a sequence of numbers)
RECURSIVE check_colors(_)
check_colors(c) ==
    IF c.t = "str" THEN c.v \in ColorNames
    ELSE IF c.t = "num" THEN TRUE
    ELSE IF IsSeq(c) THEN \A i \in DOMAIN c.v : check_colors(c.v[i])
    ELSE FALSE

\* brainrender.DEFAULT_VIP_REGIONS
DEFAULT_VIP_REGIONS == List(<<>>)

\* x in a_list
In(x, seq) == \E i \in DOMAIN seq.v : seq.v[i] = x

\* the outcome of the check of the colors argument: the exception raised
\* (or "ok") and colors as the loop will read it
Checked(st, colors) == [status |-> st, colors |-> colors]

\* lines 147-156: "check the colors input is correct"; n = len(brain_regions)
CheckRegionColors(colors, n) ==
    IF IsNone(colors) THEN Checked("ok", colors)
    \* colors[0] of a number
    ELSE IF colors.t = "num" THEN Checked("TypeError", colors)
    \* colors[0] of an empty list
    ELSE IF IsSeq(colors) /\ colors.v = <<>> THEN Checked("IndexError", colors)
    ELSE IF IsSeq(colors) /\ IsSeq(colors.v[1])
    THEN IF Len(colors.v) # n THEN Checked("ValueError", colors)
         ELSE IF \E i \in DOMAIN colors.v : ~check_colors(colors.v[i])
         THEN Checked("ValueError", colors)
         ELSE Checked("ok", colors)
    \* a str, an rgb triple, or a list whose first item is no list or tuple:
    \* taken as one color and repeated for every region
    ELSE IF ~check_colors(colors) THEN Checked("ValueError", colors)
    ELSE Checked("ok", List(Repeat(colors, n)))

\* lines 819-830
check_valid_region_arg(region) == region.t \in {"num", "str"}

\* what _check_obj_file did: the exception raised (or "ok"), the value
\* returned, the mesh files after it, and whether it asked for a download
ObjFile(st, found, files, asked) ==
    [status |-> st, found |-> found, files |-> files, asked |-> asked]

\* the mesh asked of the provider whether or not its file is there
check_obj_file_always_downloads(region, files, unavailable, tree) ==
    IF IsNone(get_structures_by_acronym(tree, region))
    THEN ObjFile("ValueError", FALSE, files, FALSE)
    ELSE IF region \in unavailable
    THEN ObjFile("ok", FALSE, files, TRUE)
    ELSE ObjFile("ok", TRUE, files \cup {region}, TRUE)

\* lines 739-764; unavailable: the regions whose download fails
check_obj_file(region, files, unavailable, tree) ==
    IF region \in files THEN ObjFile("ok", TRUE, files, FALSE)
    ELSE IF IsNone(get_structures_by_acronym(tree, region))
    THEN ObjFile("ValueError", FALSE, files, FALSE)
    ELSE IF region \in unavailable
    THEN ObjFile("ok", FALSE, files, TRUE)
    ELSE ObjFile("ok", TRUE, files \cup {region}, TRUE)

\* lines 727-737, for one region
get_region_color(tree, region) ==
    get_structures_by_acronym(tree, region).v.rgb_triplet

\* str.lower() of the hemisphere names in use
Lower(h) == IF h = "LEFT" THEN "left" ELSE IF h = "RIGHT" THEN "right" ELSE h

\* a loaded mesh: the region it shows, its color, its alpha, and the side
\* of the brain it was cut to ("both" when whole)
LoadedMesh(region, color, alpha, side) ==
    [t |-> "mesh", v |-> [region |-> region, c |-> color, alpha |-> alpha,
                          side |-> side]]

\* lines 176-188: "check which color to assign to the brain region";
\* i counts the regions from 1
RegionColor(a, colors, tree, region, i) ==
    IF a.use_original_color
    THEN List([k \in 1..3 |-> Num(get_region_color(tree, region.v)[k] \div 255)])
    ELSE IF In(region, a.VIP_regions) THEN a.VIP_color
    ELSE IF IsNone(colors) THEN Cfg("DEFAULT_STRUCTURE_COLOR")
    ELSE IF colors.t = "list" THEN colors.v[i]
    ELSE colors

\* lines 190-193
RegionAlpha(a, region) ==
    IF In(region, a.VIP_regions) THEN Num(1) ELSE a.alpha

\* lines 783-816 and 766-781: the mesh of one hemisphere; the file exists
\* when this is called, and hemisphere is compared as it was passed
get_region_unilateral(a, region, color, alpha) ==
    IF region.v \in a.unreadable THEN NoneV
    ELSE LoadedMesh(region.v, color, alpha,
                    IF a.hemisphere.v = "left" THEN "left" ELSE "right")

\* vtkplotter's load(obj_file, c=color, alpha=alpha): None if it cannot
load(a, region, color, alpha) ==
    IF region.v \in a.unreadable THEN NoneV
    ELSE LoadedMesh(region.v, color, alpha, "both")

\* actors[region] = obj
DictSet(d, key, value) ==
    [k \in DOMAIN d \cup {key} |-> IF k = key THEN value ELSE d[k]]

\* lines 160-209: one turn of the loop, for the i-th region (from 1);
\* acc holds actors, the mesh files, and the downloads and loads made
RegionTurn(acc, a, colors, tree, acronyms, region, i) ==
    IF ~check_valid_region_arg(region)
    THEN [acc EXCEPT !.status = "ValueError"]
    ELSE IF region.t = "str" /\ region.v \in ignore_regions THEN acc
    ELSE IF ~In(region, acronyms) THEN acc
    ELSE LET chk == check_obj_file(region.v, acc.files, a.unavailable, tree)
             asked == IF chk.asked THEN Append(acc.downloads, region.v)
                      ELSE acc.downloads
             color == RegionColor(a, colors, tree, region, i)
             alpha == RegionAlpha(a, region)
             obj == IF IsNone(a.hemisphere) THEN load(a, region, color, alpha)
                    ELSE get_region_unilateral(a, region, color, alpha)
         IN  IF chk.status # "ok"
             THEN [acc EXCEPT !.status = chk.status]
             ELSE IF ~chk.found
             THEN [acc EXCEPT !.files = chk.files, !.downloads = asked]
             ELSE IF ~IsNone(a.hemisphere)
                     /\ Lower(a.hemisphere.v) \notin {"left", "right"}
             THEN [acc EXCEPT !.status = "ValueError", !.files = chk.files,
                              !.downloads = asked]
             ELSE IF IsNone(obj)
             THEN [acc EXCEPT !.files = chk.files, !.downloads = asked]
             ELSE [acc EXCEPT !.files = chk.files, !.downloads = asked,
                              !.actors = DictSet(acc.actors, region.v, obj),
                              !.loads = Append(acc.loads,
                                               [i |-> i, region |-> region.v,
                                                obj |-> obj])]

\* the loop left at the first region the atlas does not know
RECURSIVE RegionLoop_stops_at_unknown(_, _, _, _, _, _, _)
RegionLoop_stops_at_unknown(acc, a, colors, tree, acronyms, regions, i) ==
    IF i > Len(regions) \/ acc.status # "ok" THEN acc
    ELSE IF ~In(regions[i], acronyms) THEN acc
    ELSE RegionLoop_stops_at_unknown(
             RegionTurn(acc, a, colors, tree, acronyms, regions[i], i),
             a, colors, tree, acronyms, regions, i + 1)

\* lines 158-209: the loop, from the i-th region on
RECURSIVE RegionLoop(_, _, _, _, _, _, _)
RegionLoop(acc, a, colors, tree, acronyms, regions, i) ==
    IF i > Len(regions) \/ acc.status # "ok" THEN acc
    ELSE RegionLoop(RegionTurn(acc, a, colors, tree, acronyms, regions[i], i),
                    a, colors, tree, acronyms, regions, i + 1)

\* lines 134-145: the defaults, and brain_regions made a list
RegionArgs(a) ==
    [a EXCEPT !.VIP_regions = IF IsNone(a.VIP_regions) THEN DEFAULT_VIP_REGIONS
                              ELSE a.VIP_regions,
              !.VIP_color = IF IsNone(a.VIP_color) THEN Cfg("DEFAULT_VIP_COLOR")
                            ELSE a.VIP_color,
              !.alpha = IF IsNone(a.alpha) THEN Cfg("DEFAULT_STRUCTURE_ALPHA")
                        ELSE a.alpha,
              !.brain_regions = IF a.brain_regions.t = "list" THEN a.brain_regions.v
                                ELSE <<a.brain_regions>>]

\* what a call of get_brain_regions did
RegionsOutcome(st, value, files, downloads, loads) ==
    [status |-> st, ret |-> value, obj_files |-> files,
     effects |-> [downloads |-> downloads, loads |-> loads]]

\* lines 108-211; a: the arguments, with the regions whose download fails
\* (unavailable) and whose mesh file does not load (unreadable)
get_brain_regions(a, tree, acronyms, files) ==
    IF IsNone(acronyms) THEN RegionsOutcome("ok", NoneV, files, <<>>, <<>>)
    ELSE LET b == RegionArgs(a)
             checked == CheckRegionColors(a.colors, Len(b.brain_regions))
             done == RegionLoop([status |-> "ok", actors |-> <<>>, files |-> files,
                                 downloads |-> <<>>, loads |-> <<>>],
                                b, checked.colors, tree, acronyms, b.brain_regions, 1)
         IN  IF checked.status # "ok"
             THEN RegionsOutcome(checked.status, NoneV, files, <<>>, <<>>)
             ELSE RegionsOutcome(done.status,
                                 IF done.status = "ok" THEN Dict(done.actors) ELSE NoneV,
                                 done.files, done.downloads, done.loads)

\* sequences over a set of items, up to a length
RECURSIVE SeqsUpTo(_, _)
SeqsUpTo(items, n) ==
    IF n = 0 THEN {<<>>}
    ELSE LET shorter == SeqsUpTo(items, n - 1)
         IN  shorter \cup {Append(q, e) : q \in {r \in shorter : Len(r) = n - 1},
                                          e \in items}

Red == Str("red")
Blue == Str("blue")
Rgb == Tup(<<Num(0), Num(1), Num(0)>>)

\* brain_regions of the calls about colors: lists of regions with a mesh
\* and of an ignored one, and a lone acronym
ColoredRegionArgs ==
    {List(q) : q \in SeqsUpTo({Str("MOs"), Str("TH"), Str("grey")}, MaxRegions)}
        \cup {Str("TH")}

\* colors: nothing, one color, or a list or tuple of colors that may be
\* one too long
RegionColorArgs ==
    {NoneV, Red, Str("nocolor"), Rgb, Num(3),
     Tup(<<Rgb, Rgb>>), Tup(<<Red, Blue>>), List(<<List(<<Num(1), Num(0), Num(0)>>)>>),
     List(<<Str("nocolor"), Red>>), List(<<Rgb, Str("nocolor")>>)}
        \cup {List(q) : q \in SeqsUpTo({Red, Blue, Rgb}, MaxRegions + 1)}

\* the calls about colors
ColoredRegionCalls ==
    [brain_regions : ColoredRegionArgs,
     VIP_regions : {NoneV, List(<<Str("MOs")>>)},
     VIP_color : {NoneV},
     colors : RegionColorArgs,
     use_original_color : BOOLEAN,
     alpha : {NoneV},
     hemisphere : {NoneV},
     unavailable : {{}, {"MOs"}},
     unreadable : {{}}]

\* the calls about the regions, the hemisphere and the mesh files
MeshRegionCalls ==
    [brain_regions : {List(q) : q \in SeqsUpTo({Str("MOs"), Str("VPM"), Str("ZZZ"),
                                                Num(315), NoneV}, MaxRegions)}
                         \cup {Str("root"), Str("ZZZ"), Num(315), NoneV},
     VIP_regions : {NoneV, List(<<Str("VPM")>>)},
     VIP_color : {NoneV, Str("green")},
     colors : {NoneV, Red},
     use_original_color : {FALSE},
     alpha : {NoneV, Num(1)},
     hemisphere : {NoneV, Str("left"), Str("right"), Str("LEFT"), Str("up")},
     unavailable : {{}, {"VPM"}},
     unreadable : {{}, {"MOs"}}]

\* an atlas before any call; the mesh files of earlier sessions are on disk
InitRegions ==
    /\ op = "init"
    /\ args \in ColoredRegionCalls \cup MeshRegionCalls
    /\ status = "ok"
    /\ ret = NoneV
    /\ effects = <<>>
    /\ p0 = <<0, 0, 0>>
    /\ prev = NoCall
    /\ annotated_volume = InitVolume
    /\ structure_tree = TreeNodes
    /\ region_acronyms \in {MeshAcronyms, NoneV}
    /\ obj_files \in {{}, {"MOs"}}

\* atlas.get_brain_regions(brain_regions, VIP_regions, VIP_color, colors,
\*                         use_original_color, alpha, hemisphere)
GetBrainRegions ==
    /\ op = "init"
    /\ LET r == get_brain_regions(args, structure_tree, region_acronyms, obj_files)
       IN  /\ op' = "get_brain_regions"
           /\ status' = r.status
           /\ ret' = r.ret
           /\ effects' = r.effects
           /\ obj_files' = r.obj_files
    /\ UNCHANGED <<args, p0, prev, annotated_volume, structure_tree, region_acronyms>>

NextRegions == GetBrainRegions

SpecRegions == InitRegions /\ [][NextRegions]_vars

-----------------------------------------------------------------------------
(* get_colors_from_coordinates                                             *)

\* the most points in one batch
MaxPoints == 2

\* a point as a caller writes it: a list of three numbers
Point(p) == List([i \in 1..3 |-> Num(p[i])])

\* np.array(p0): the three coordinates
Coords(point) == [i \in 1..3 |-> point.v[i].v]

\* struct['rgb_triplet'] if struct is not None else None
ColorOf(struct) ==
    IF IsNone(struct) THEN NoneV
    ELSE List([k \in 1..3 |-> Num(struct.v.rgb_triplet[k])])

\* the color of the region of one point (lines 864-868, and one item of
\* the comprehensions of lines 870-872)
PointColor(volume, tree, point) ==
    ColorOf(get_structure_from_coordinates(volume, tree, Coords(point), FALSE).ret)

\* lines 858-873; points is one point or a list of points
get_colors_from_coordinates(volume, tree, points) ==
    \* p0[0] of an empty list
    IF points.v = <<>> THEN [status |-> "IndexError", ret |-> NoneV]
    ELSE IF points.v[1].t = "num"
    THEN [status |-> "ok", ret |-> PointColor(volume, tree, points)]
    ELSE [status |-> "ok",
          ret |-> List([i \in DOMAIN points.v |->
                           PointColor(volume, tree, points.v[i])])]

\* the points of a batch: outside the volume, in voxels the tree knows and
\* in a voxel it does not
BatchPoints ==
    {Point(<<x, y, 0>>) :
        x \in {0 - (DimX + 1) * CoordStep, 0, CoordStep, 2 * CoordStep},
        y \in {0, CoordStep, DimY * CoordStep}}

\* an atlas before any call; p0 is one point, or a list of up to MaxPoints
\* points
InitColors ==
    /\ op = "init"
    /\ args \in [p0 : BatchPoints \cup {List(q) : q \in SeqsUpTo(BatchPoints, MaxPoints)}]
    /\ status = "ok"
    /\ ret = NoneV
    /\ effects = <<>>
    /\ p0 = <<0, 0, 0>>
    /\ prev = NoCall
    /\ annotated_volume = InitVolume
    /\ structure_tree = TreeNodes
    /\ region_acronyms = MeshAcronyms
    /\ obj_files = {}

\* atlas.get_colors_from_coordinates(p0)
GetColors ==
    /\ op = "init"
    /\ LET r == get_colors_from_coordinates(annotated_volume, structure_tree, args.p0)
       IN  /\ op' = "get_colors_from_coordinates"
           /\ status' = r.status
           /\ ret' = r.ret
    /\ UNCHANGED <<args, effects, p0, prev, annotated_volume, structure_tree,
                   region_acronyms, obj_files>>

NextColors == GetColors

SpecColors == InitColors /\ [][NextColors]_vars

-----------------------------------------------------------------------------
(* Hemispheres: get_hemisphere_from_point, get_hemispere_from_point and    *)
(* mirror_point_across_hemispheres. Their coordinates are counted in       *)
(* halves of a unit, so that the mean of two whole bounds is exact.        *)

\* np.mean of two numbers divides their sum by 2
HalfUnits == 2

\* the most calls made on one point
MaxCalls == 3

\* how far from the midline, in halves of a unit, the points start
MaxDelta == 2

\* ABA._root_bounds
root_bounds == <<<<-17, 13193>>, <<134, 7564>>, <<486, 10891>>>>

\* ABA._root_midpoint, in halves of a unit
root_midpoint ==
    [i \in 1..3 |-> ((root_bounds[i][1] + root_bounds[i][2]) * HalfUnits) \div 2]

\* 'right' for the points below the midline
get_hemisphere_from_point_swapped(point) ==
    IF point[3] > root_midpoint[3] THEN "left" ELSE "right"

\* lines 716-720
get_hemisphere_from_point(point) ==
    IF point[3] < root_midpoint[3] THEN "left" ELSE "right"

\* lines 832-836
get_hemispere_from_point(point) ==
    IF point[3] > root_midpoint[3] THEN "right" ELSE "left"

\* the third coordinate reflected about 0
mirror_point_about_origin(point) ==
    [point EXCEPT ![3] = 0 - point[3]]

\* lines 722-725: the caller's list after the call, which is also returned
mirror_point_across_hemispheres(point) ==
    LET delta == point[3] - root_midpoint[3]
    IN  [point EXCEPT ![3] = root_midpoint[3] - delta]

\* the points handed in: on the midline, just off it, and far from it
HemispherePoints ==
    {<<x, root_midpoint[2], z>> :
        x \in {0, root_bounds[1][1] * HalfUnits},
        z \in {root_midpoint[3] + d : d \in (0 - MaxDelta)..MaxDelta}
                \cup {0, 3000 * HalfUnits, 4200 * HalfUnits, 0 - 100 * HalfUnits}}

\* one call in the log of the calls made on the point: the method, the
\* point as it was when the call was made, and the value returned
Call(method, point, value) == [op |-> method, point |-> point, ret |-> value]

InitHemispheres ==
    /\ op = "init"
    /\ args = <<>>
    /\ status = "ok"
    /\ ret = NoneV
    /\ effects = <<>>
    /\ p0 \in HemispherePoints
    /\ prev = NoCall
    /\ annotated_volume = InitVolume
    /\ structure_tree = TreeNodes
    /\ region_acronyms = MeshAcronyms
    /\ obj_files = {}

\* atlas.get_hemisphere_from_point(p0)
GetHemisphere ==
    /\ Len(effects) < MaxCalls
    /\ op' = "get_hemisphere_from_point"
    /\ status' = "ok"
    /\ ret' = Str(get_hemisphere_from_point(p0))
    /\ effects' = Append(effects, Call("get_hemisphere_from_point", p0,
                                       Str(get_hemisphere_from_point(p0))))
    /\ UNCHANGED <<args, p0, prev, annotated_volume, structure_tree,
                   region_acronyms, obj_files>>

\* atlas.get_hemispere_from_point(p0)
GetHemispere ==
    /\ Len(effects) < MaxCalls
    /\ op' = "get_hemispere_from_point"
    /\ status' = "ok"
    /\ ret' = Str(get_hemispere_from_point(p0))
    /\ effects' = Append(effects, Call("get_hemispere_from_point", p0,
                                       Str(get_hemispere_from_point(p0))))
    /\ UNCHANGED <<args, p0, prev, annotated_volume, structure_tree,
                   region_acronyms, obj_files>>

\* atlas.mirror_point_across_hemispheres(p0): p0 is changed in place
MirrorPoint ==
    /\ Len(effects) < MaxCalls
    /\ op' = "mirror_point_across_hemispheres"
    /\ status' = "ok"
    /\ p0' = mirror_point_across_hemispheres(p0)
    /\ ret' = p0'
    /\ effects' = Append(effects, Call("mirror_point_across_hemispheres", p0, p0'))
    /\ UNCHANGED <<args, prev, annotated_volume, structure_tree,
                   region_acronyms, obj_files>>

NextHemispheres == GetHemisphere \/ GetHemispere \/ MirrorPoint

SpecHemispheres == InitHemispheres /\ [][NextHemispheres]_vars

-----------------------------------------------------------------------------
(* get_tractography                                                        *)

\* the most tractography records in one call
MaxTracts == 2

\* ABA.structures: the ids of the structures of the summary structure set
structures == {3, 5}

\* brainrender.Utils.data_manipulation.is_any_item_in_list(L1, L2)
is_any_item_in_list(L1, L2) == \E i \in DOMAIN L1 : \E j \in DOMAIN L2 : L1[i] = L2[j]

\* bool(x) of the values passed as flags
Truthy(x) ==
    IF x.t = "bool" THEN x.v
    ELSE IF IsSeq(x) THEN x.v # <<>>
    ELSE ~IsNone(x)

\* get_structure_ancestors(acronym).iloc[-1]: the closest structure above
\* one of the tree, the structure itself at the top
LastAncestor(tree, s) ==
    IF \E n \in tree : n.id = s.parent
    THEN CHOOSE n \in tree : n.id = s.parent
    ELSE s

\* lines 686-700, for one acronym; the exception raised (or "ok") and the
\* structure returned
get_structure_parent(tree, acronym) ==
    IF acronym.t \notin {"num", "str"}
    THEN [status |-> "ValueError", s |-> NoneV]
    ELSE IF IsNone(get_structures_by_acronym(tree, acronym.v))
    THEN [status |-> "KeyError", s |-> NoneV]
    ELSE LET s == get_structures_by_acronym(tree, acronym.v).v
         IN  [status |-> "ok",
              s |-> IF s.id \in structures THEN Dict(s)
                    ELSE Dict(LastAncestor(tree, s))]

\* one tractography record: the experiment's source structure, the
\* structures injected, the injection site and volume, and the path
Tract(abbrev, injected, site, volume) ==
    Dict([structure_abbrev |-> Str(abbrev),
          injection_structures |->
              List([k \in DOMAIN injected |-> Dict([abbreviation |-> Str(injected[k])])]),
          injection_coordinates |-> Point(site),
          injection_volume |-> Num(volume),
          path |-> List(<<Dict([coord |-> Point(site)]),
                          Dict([coord |-> Point(<<0, 0, 0>>)])>>)])

\* [x['abbreviation'] for x in t['injection-structures']]
Abbreviations(t) ==
    [k \in DOMAIN t.v.injection_structures.v |->
        t.v.injection_structures.v[k].v.abbreviation]

\* self.get_region_color(t['structure-abbrev']) as a value
RegionColorOf(tree, abbrev) ==
    List([k \in 1..3 |-> Num(get_region_color(tree, abbrev.v)[k])])

\* what the preparation of COLORS gave: the exception raised (or "ok")
\* and the list
Colored(st, COLORS) == [status |-> st, COLORS |-> COLORS]

\* lines 457-470: color_by == "target_region"
TargetRegionColors(a, tree, tracts) ==
    IF ~IsNone(a.VIP_color)
    THEN IF ~check_colors(a.VIP_color) \/ ~check_colors(a.others_color)
         THEN Colored("ValueError", <<>>)
         \* the try of lines 461-468
         ELSE IF \E k \in DOMAIN tracts : tracts[k].t # "dict"
         THEN Colored("ValueError", <<>>)
         ELSE IF a.include_all_inj_regions
         THEN Colored("ok", [k \in DOMAIN tracts |->
                                IF is_any_item_in_list(Abbreviations(tracts[k]),
                                                       a.VIP_regions.v)
                                THEN a.VIP_color ELSE a.others_color])
         ELSE Colored("ok", [k \in DOMAIN tracts |->
                                IF In(tracts[k].v.structure_abbrev, a.VIP_regions)
                                THEN a.VIP_color ELSE a.others_color])
    ELSE IF \E k \in DOMAIN tracts : tracts[k].t # "dict"
    THEN Colored("TypeError", <<>>)
    ELSE IF \E k \in DOMAIN tracts :
                /\ In(tracts[k].v.structure_abbrev, a.VIP_regions)
                /\ IsNone(get_structures_by_acronym(tree, tracts[k].v.structure_abbrev.v))
    THEN Colored("KeyError", <<>>)
    ELSE Colored("ok", [k \in DOMAIN tracts |->
                           IF In(tracts[k].v.structure_abbrev, a.VIP_regions)
                           THEN RegionColorOf(tree, tracts[k].v.structure_abbrev)
                           ELSE a.others_color])

\* lines 435-472: "check coloring mode used and prepare a list COLORS"
TractColors(a, tree, tracts) ==
    IF a.color_by = "manual"
    THEN IF IsNone(a.color)
         THEN Colored("ok", Repeat(Cfg("TRACT_DEFAULT_COLOR"), Len(tracts)))
         ELSE IF a.color.t = "list"
         THEN IF Len(a.color.v) # Len(tracts) THEN Colored("ValueError", <<>>)
              ELSE IF \E k \in DOMAIN a.color.v : ~check_colors(a.color.v[k])
              THEN Colored("ValueError", <<>>)
              ELSE Colored("ok", a.color.v)
         ELSE IF ~check_colors(a.color) THEN Colored("ValueError", <<>>)
         ELSE Colored("ok", Repeat(a.color, Len(tracts)))
    ELSE IF a.color_by = "region"
    \* t['structure-abbrev'] of an item that is no dictionary
    THEN IF \E k \in DOMAIN tracts : tracts[k].t # "dict"
         THEN Colored("TypeError", <<>>)
         ELSE IF \E k \in DOMAIN tracts :
                IsNone(get_structures_by_acronym(tree, tracts[k].v.structure_abbrev.v))
         THEN Colored("KeyError", <<>>)
         ELSE Colored("ok", [k \in DOMAIN tracts |->
                                RegionColorOf(tree, tracts[k].v.structure_abbrev)])
    ELSE IF a.color_by = "target_region"
    THEN TargetRegionColors(a, tree, tracts)
    ELSE Colored("ValueError", <<>>)

\* shapes.Sphere(pos=..., c=color, r=INJECTION_VOLUME_SIZE*volume, alpha=...)
\* made for the i-th record (from 1); the radius is kept as the volume
Sphere(i, t, color, alpha) ==
    [t |-> "sphere",
     v |-> [i |-> i, pos |-> t.v.injection_coordinates, c |-> color,
            r |-> t.v.injection_volume, alpha |-> alpha]]

\* shapes.Tube(points, r=TRACTO_RADIUS, c=color, alpha=alpha, res=TRACTO_RES)
Tube(i, t, color, alpha) ==
    [t |-> "tube",
     v |-> [i |-> i,
            points |-> [k \in DOMAIN t.v.path.v |-> t.v.path.v[k].v.coord],
            c |-> color, alpha |-> alpha]]

\* lines 482-485: the exception raised (or "ok") and inj_structures
InjStructures(a, tree, t) ==
    IF a.include_all_inj_regions
    THEN [status |-> "ok", acronyms |-> Abbreviations(t)]
    ELSE LET parent == get_structure_parent(tree, t.v.structure_abbrev)
         IN  IF parent.status # "ok"
             THEN [status |-> parent.status, acronyms |-> <<>>]
             ELSE [status |-> "ok", acronyms |-> <<Str(parent.s.v.acronym)>>]

\* lines 492-495
TractAlpha(a, inj_structures) ==
    IF a.color_by = "target_region"
       /\ ~is_any_item_in_list(inj_structures, a.VIP_regions.v)
    THEN a.others_alpha
    ELSE a.TRACTO_ALPHA

\* lines 501-514: "skip" when the record is passed over, "keep" when it
\* is rendered, or the exception raised
ExtractRegion(a, volume, tree, t) ==
    IF ~Truthy(a.extract_region_from_inj_coords) THEN "keep"
    ELSE LET region == get_structure_from_coordinates(
                           volume, tree, Coords(t.v.injection_coordinates), FALSE).ret
             parent == get_structure_parent(tree, Str(region.v.acronym))
         IN  IF IsNone(region) THEN "skip"
             ELSE IF parent.status # "ok" THEN "ValueError"
             ELSE IF a.extract_region_from_inj_coords.t = "list"
                     /\ ~is_any_item_in_list(<<Str(parent.s.v.acronym)>>,
                                             a.extract_region_from_inj_coords.v)
             THEN "skip"
             ELSE "keep"

\* the sphere made before the record is tested for transparency
TractTurn_sphere_first(acc, a, volume, tree, t, color, i) ==
    LET inj == InjStructures(a, tree, t)
        alpha == TractAlpha(a, inj.acronyms)
        extracted == ExtractRegion(a, volume, tree, t)
        sphere == IF a.display_injection_volume
                  THEN <<Sphere(i, t, color, a.TRACTO_ALPHA)>> ELSE <<>>
    IN  IF t.t # "dict" THEN [acc EXCEPT !.status = "TypeError"]
        ELSE IF inj.status # "ok" THEN [acc EXCEPT !.status = inj.status]
        ELSE IF alpha = Num(0)
        THEN [acc EXCEPT !.actors = acc.actors \o sphere]
        ELSE IF extracted = "skip" THEN acc
        ELSE IF extracted # "keep" THEN [acc EXCEPT !.status = extracted]
        ELSE [acc EXCEPT !.actors = acc.actors \o sphere
                                        \o <<Tube(i, t, color, alpha)>>]

\* lines 480-522: one turn of the loop, for the i-th record (from 1)
TractTurn(acc, a, volume, tree, t, color, i) ==
    LET inj == InjStructures(a, tree, t)
        alpha == TractAlpha(a, inj.acronyms)
        extracted == ExtractRegion(a, volume, tree, t)
        sphere == IF a.display_injection_volume
                  THEN <<Sphere(i, t, color, a.TRACTO_ALPHA)>> ELSE <<>>
    IN  IF t.t # "dict" THEN [acc EXCEPT !.status = "TypeError"]
        ELSE IF inj.status # "ok" THEN [acc EXCEPT !.status = inj.status]
        ELSE IF alpha = Num(0) THEN acc
        ELSE IF extracted = "skip" THEN acc
        ELSE IF extracted # "keep" THEN [acc EXCEPT !.status = extracted]
        ELSE [acc EXCEPT !.actors = acc.actors \o sphere
                                        \o <<Tube(i, t, color, alpha)>>]

\* lines 480-522: the loop over zip(tractography, COLORS), from the i-th on
RECURSIVE TractLoop(_, _, _, _, _, _, _)
TractLoop(acc, a, volume, tree, tracts, COLORS, i) ==
    IF i > Len(tracts) \/ i > Len(COLORS) \/ acc.status # "ok" THEN acc
    ELSE TractLoop(TractTurn(acc, a, volume, tree, tracts[i], COLORS[i], i),
                   a, volume, tree, tracts, COLORS, i + 1)

\* lines 421-432: "check argument"; the exception raised (or "ok") and
\* tractography as a list
TractArgs(a) ==
    IF a.tractography.t \notin {"list", "dict"}
    THEN [status |-> "ValueError", tracts |-> <<>>]
    \* tractography[0] of an empty list
    ELSE IF a.tractography.t = "list" /\ a.tractography.v = <<>>
    THEN [status |-> "IndexError", tracts |-> <<>>]
    ELSE IF a.tractography.t = "list" /\ a.tractography.v[1].t # "dict"
    THEN [status |-> "ValueError", tracts |-> <<>>]
    ELSE IF a.VIP_regions.t # "list"
    THEN [status |-> "ValueError", tracts |-> <<>>]
    ELSE [status |-> "ok",
          tracts |-> IF a.tractography.t = "dict" THEN <<a.tractography>>
                     ELSE a.tractography.v]

\* what a call of get_tractography did: the exception raised (or "ok"),
\* the list returned, COLORS, and the geometry made before it ended
TractsOutcome(st, actors, COLORS) ==
    [status |-> st,
     ret |-> IF st = "ok" THEN List(actors) ELSE NoneV,
     effects |-> [COLORS |-> COLORS, made |-> actors]]

\* lines 400-524; a: the arguments, with the configured TRACTO_ALPHA
get_tractography(a, volume, tree) ==
    LET checked == TractArgs(a)
        colored == TractColors(a, tree, checked.tracts)
        done == TractLoop([status |-> "ok", actors |-> <<>>], a, volume, tree,
                          checked.tracts, colored.COLORS, 1)
    IN  IF checked.status # "ok" THEN TractsOutcome(checked.status, <<>>, <<>>)
        ELSE IF colored.status # "ok" THEN TractsOutcome(colored.status, <<>>, <<>>)
        ELSE TractsOutcome(done.status, done.actors, colored.COLORS)

\* the injection site inside the voxel that holds a structure id
SiteOf(id) ==
    LET voxel == CHOOSE x \in Voxels : InitVolume[x] = id
    IN  [k \in 1..3 |-> CoordStep * voxel[k]]

\* the records of the experiments: injections in structures of the summary
\* set and below it, one whose site is above the volume, one whose site is
\* one voxel below 0, one in a voxel of no structure and one whose source
\* structure the tree lacks
Tracts ==
    {Tract("MOs", <<"MOs">>, SiteOf(4), 1),
     Tract("VPM", <<"VPM", "TH">>, SiteOf(6), 2),
     Tract("TH", <<"TH", "MOs">>, <<0 - CoordStep, 0, 0>>, 1),
     Tract("CTX", <<"CTX">>, <<(DimX + 1) * CoordStep, 0, 0>>, 1),
     Tract("TH", <<"TH">>, SiteOf(0), 2),
     Tract("ZZZ", <<"MOs">>, SiteOf(5), 1)}

TractLists == {List(q) : q \in SeqsUpTo(Tracts, MaxTracts)}

\* values that are no list of dictionaries
NoTracts ==
    {NoneV, Str("MOs"), List(<<Str("MOs")>>), Tup(<<>>),
     List(<<Tract("TH", <<"TH">>, SiteOf(5), 1), Str("MOs")>>)}

\* the calls about the color argument
ManualTractCalls ==
    [tractography : TractLists \cup Tracts \cup NoTracts,
     color : {NoneV, Red, Str("nocolor"), Rgb}
                \cup {List(q) : q \in SeqsUpTo({Red, Blue}, MaxTracts + 1)},
     color_by : {"manual", "region", "colour"},
     others_alpha : {Num(1)},
     VIP_regions : {List(<<>>)},
     VIP_color : {NoneV},
     others_color : {Str("white")},
     include_all_inj_regions : {FALSE},
     extract_region_from_inj_coords : {Bool(FALSE)},
     display_injection_volume : BOOLEAN,
     TRACTO_ALPHA : {Num(1), Num(0)}]

\* the calls about the VIP regions
TargetTractCalls ==
    [tractography : TractLists \cup NoTracts,
     color : {NoneV},
     color_by : {"target_region"},
     others_alpha : {Num(1), Num(0)},
     VIP_regions : {List(<<>>), List(<<Str("MOs")>>), List(<<Str("TH")>>),
                    List(<<Str("VPM"), Str("MOs")>>), Str("MOs")},
     VIP_color : {NoneV, Str("green"), Str("nocolor")},
     others_color : {Str("white")},
     include_all_inj_regions : BOOLEAN,
     extract_region_from_inj_coords : {Bool(FALSE)},
     display_injection_volume : BOOLEAN,
     TRACTO_ALPHA : {Num(1)}]

\* the calls about the injection coordinates
ExtractTractCalls ==
    [tractography : TractLists,
     color : {NoneV},
     color_by : {"manual", "target_region"},
     others_alpha : {Num(1), Num(0)},
     VIP_regions : {List(<<Str("TH")>>)},
     VIP_color : {Str("green")},
     others_color : {Str("white")},
     include_all_inj_regions : {FALSE},
     extract_region_from_inj_coords :
         {Bool(TRUE), List(<<>>), List(<<Str("TH")>>), List(<<Str("CTX")>>),
          List(<<Str("grey"), Str("root")>>), List(<<Str("VPM")>>)},
     display_injection_volume : BOOLEAN,
     TRACTO_ALPHA : {Num(1)}]

InitTracts ==
    /\ op = "init"
    /\ args \in ManualTractCalls \cup TargetTractCalls \cup ExtractTractCalls
    /\ status = "ok"
    /\ ret = NoneV
    /\ effects = <<>>
    /\ p0 = <<0, 0, 0>>
    /\ prev = NoCall
    /\ annotated_volume = InitVolume
    /\ structure_tree = TreeNodes
    /\ region_acronyms = MeshAcronyms
    /\ obj_files = {}

\* atlas.get_tractography(tractography, color, color_by, others_alpha,
\*     VIP_regions, VIP_color, others_color, include_all_inj_regions,
\*     extract_region_from_inj_coords, display_injection_volume)
GetTractography ==
    /\ op = "init"
    /\ LET r == get_tractography(args, annotated_volume, structure_tree)
       IN  /\ op' = "get_tractography"
           /\ status' = r.status
           /\ ret' = r.ret
           /\ effects' = r.effects
    /\ UNCHANGED <<args, p0, prev, annotated_volume, structure_tree,
                   region_acronyms, obj_files>>

NextTracts == GetTractography

SpecTracts == InitTracts /\ [][NextTracts]_vars

-----------------------------------------------------------------------------
(* The mesh files over many calls: an atlas with an empty meshes folder,   *)
(* on which _check_obj_file and get_brain_regions are called again and     *)
(* again.                                                                  *)

\* the acronyms whose mesh file is asked for
CachedAcronyms == {"MOs", "TH", "VPM"}

\* the calls of get_brain_regions made on the folder
CachedRegionCalls ==
    [brain_regions : {List(q) : q \in SeqsUpTo({Str(r) : r \in CachedAcronyms},
                                               MaxRegions)},
     VIP_regions : {NoneV},
     VIP_color : {NoneV},
     colors : {NoneV},
     use_original_color : {TRUE},
     alpha : {NoneV},
     hemisphere : {NoneV, Str("left")},
     unavailable : {{}, {"TH"}},
     unreadable : {{}}]

InitMeshes ==
    /\ op = "init"
    /\ args = <<>>
    /\ status = "ok"
    /\ ret = NoneV
    /\ effects = <<>>
    /\ p0 = <<0, 0, 0>>
    /\ prev = NoCall
    /\ annotated_volume = InitVolume
    /\ structure_tree = TreeNodes
    /\ region_acronyms = MeshAcronyms
    /\ obj_files = {}

\* atlas._check_obj_file(region, obj_file), the provider up or down
CallCheckObjFile ==
    \E region \in CachedAcronyms \cup {"ZZZ"}, unavailable \in {{}, CachedAcronyms} :
        LET r == check_obj_file(region, obj_files, unavailable, structure_tree)
        IN  /\ op' = "_check_obj_file"
            /\ args' = [region |-> region, unavailable |-> unavailable]
            /\ status' = r.status
            /\ ret' = IF r.status = "ok" THEN Bool(r.found) ELSE NoneV
            /\ effects' = [downloads |-> IF r.asked THEN <<region>> ELSE <<>>,
                           loads |-> <<>>]
            /\ obj_files' = r.files
            /\ UNCHANGED <<p0, prev, annotated_volume, structure_tree,
                           region_acronyms>>

\* atlas.get_brain_regions(brain_regions, hemisphere=hemisphere)
CallGetBrainRegions ==
    \E a \in CachedRegionCalls :
        LET r == get_brain_regions(a, structure_tree, region_acronyms, obj_files)
        IN  /\ op' = "get_brain_regions"
            /\ args' = a
            /\ status' = r.status
            /\ ret' = r.ret
            /\ effects' = r.effects
            /\ obj_files' = r.obj_files
            /\ UNCHANGED <<p0, prev, annotated_volume, structure_tree,
                           region_acronyms>>

NextMeshes == CallCheckObjFile \/ CallGetBrainRegions

SpecMeshes == InitMeshes /\ [][NextMeshes]_vars

-----------------------------------------------------------------------------
(* get_structure_ancestors, get_structure_descendants and                  *)
(* get_structure_parent (lines 663-710).                                   *)

\* the most acronyms in one call
MaxAcronyms == 2

\* the ids of the structures above one, the closest first
RECURSIVE AncestorIds(_, _)
AncestorIds(tree, id) ==
    LET s == CHOOSE n \in tree : n.id = id
    IN  IF \E n \in tree : n.id = s.parent
        THEN {s.parent} \cup AncestorIds(tree, s.parent)
        ELSE {}

\* pd.DataFrame(tree_search.get_tree('Structure', struct_id, ancestors=...,
\* descendants=...)): the rows of the structure itself and, for a flag that
\* is True, of the structures above or below it
get_tree(tree, struct_id, ancestors, descendants) ==
    Dict([id |-> struct_id,
          rows |-> {struct_id}
                   \cup (IF ancestors.t = "bool" /\ ancestors.v
                         THEN AncestorIds(tree, struct_id) ELSE {})
                   \cup (IF descendants.t = "bool" /\ descendants.v
                         THEN {n.id : n \in {m \in tree :
                                   struct_id \in AncestorIds(tree, m.id)}}
                         ELSE {})])

\* structure_tree.get_structures_by_acronym([region]) finds the region
Known(tree, region) ==
    region.t = "str" /\ ~IsNone(get_structures_by_acronym(tree, region.v))

\* lines 678-681: the turns of the loop from the i-th region on; ancestors
\* is the list of line 677, which has taken the name of the flag.  The
\* outcome is the exception raised (or "ok"), the value returned and the
\* tree searches made, in order, each with its id and the two flags as they
\* were passed
RECURSIVE AncestorsLoop(_, _, _, _, _, _)
AncestorsLoop(tree, regions, i, ancestors, descendants, queries) ==
    IF i > Len(regions)
    THEN [status |-> "ok", ret |-> List(ancestors), effects |-> queries]
    ELSE IF ~Known(tree, regions[i])
    THEN [status |-> "KeyError", ret |-> NoneV, effects |-> queries]
    ELSE LET struct_id == get_structures_by_acronym(tree, regions[i].v).v.id
             flag == List(ancestors)
         IN  AncestorsLoop(tree, regions, i + 1,
                 Append(ancestors, get_tree(tree, struct_id, flag, descendants)),
                 descendants,
                 Append(queries, [id |-> struct_id, ancestors |-> flag,
                                  descendants |-> descendants]))

\* lines 663-681
get_structure_ancestors(tree, regions, ancestors, descendants) ==
    IF regions.t # "list"
    THEN IF ~Known(tree, regions)
         THEN [status |-> "KeyError", ret |-> NoneV, effects |-> <<>>]
         ELSE LET struct_id == get_structures_by_acronym(tree, regions.v).v.id
              IN  [status |-> "ok",
                   ret |-> get_tree(tree, struct_id, ancestors, descendants),
                   effects |-> <<[id |-> struct_id, ancestors |-> ancestors,
                                  descendants |-> descendants]>>]
    ELSE AncestorsLoop(tree, regions.v, 1, <<>>, descendants, <<>>)

\* lines 702-710: the turns of the loop from the i-th acronym on; line 705
\* looks the whole list up and takes the first structure found
RECURSIVE ParentsLoop(_, _, _, _)
ParentsLoop(tree, acronyms, i, parents) ==
    IF i > Len(acronyms) THEN [status |-> "ok", s |-> List(parents)]
    ELSE IF ~check_valid_region_arg(acronyms[i])
    THEN [status |-> "ValueError", s |-> NoneV]
    ELSE IF \E j \in DOMAIN acronyms : ~Known(tree, acronyms[j])
    THEN [status |-> "KeyError", s |-> NoneV]
    ELSE LET s == get_structures_by_acronym(tree, acronyms[1].v).v
             own == IF s.id \in structures THEN <<Dict(s)>> ELSE <<>>
         IN  ParentsLoop(tree, acronyms, i + 1,
                         parents \o own \o <<Dict(LastAncestor(tree, s))>>)

(* The calls of the three methods.                                         *)

\* an atlas before any call.  The call has one region, or a list of up to
\* MaxAcronyms regions, and the two flags; a region is a structure of the
\* tree, an acronym the tree lacks, or None
InitStructures ==
    /\ op = "init"
    /\ LET items == {Str(s.acronym) : s \in TreeNodes} \cup {Str("XX"), NoneV}
       IN  args \in [regions : items \cup {List(q) : q \in SeqsUpTo(items, MaxAcronyms)},
                     ancestors : {Bool(TRUE), Bool(FALSE)},
                     descendants : {Bool(TRUE), Bool(FALSE)}]
    /\ status = "ok"
    /\ ret = NoneV
    /\ effects = <<>>
    /\ p0 = <<0, 0, 0>>
    /\ prev = NoCall
    /\ annotated_volume = InitVolume
    /\ structure_tree = TreeNodes
    /\ region_acronyms = MeshAcronyms
    /\ obj_files = {}

\* atlas.get_structure_ancestors(regions, ancestors, descendants)
GetStructureAncestors ==
    /\ op = "init"
    /\ LET r == get_structure_ancestors(structure_tree, args.regions,
                                        args.ancestors, args.descendants)
       IN  /\ op' = "get_structure_ancestors"
           /\ status' = r.status
           /\ ret' = r.ret
           /\ effects' = r.effects
    /\ UNCHANGED <<args, p0, prev, annotated_volume, structure_tree,
                   region_acronyms, obj_files>>

\* atlas.get_structure_descendants(regions), lines 683-684
GetStructureDescendants ==
    /\ op = "init"
    /\ LET r == get_structure_ancestors(structure_tree, args.regions,
                                        Bool(FALSE), Bool(TRUE))
       IN  /\ op' = "get_structure_descendants"
           /\ status' = r.status
           /\ ret' = r.ret
           /\ effects' = r.effects
    /\ UNCHANGED <<args, p0, prev, annotated_volume, structure_tree,
                   region_acronyms, obj_files>>

\* atlas.get_structure_parent(acronyms), for one acronym or a list of them
GetStructureParent ==
    /\ op = "init"
    /\ LET r == IF args.regions.t # "list"
                THEN get_structure_parent(structure_tree, args.regions)
                ELSE ParentsLoop(structure_tree, args.regions.v, 1, <<>>)
       IN  /\ op' = "get_structure_parent"
           /\ status' = r.status
           /\ ret' = r.s
           /\ effects' = <<>>
    /\ UNCHANGED <<args, p0, prev, annotated_volume, structure_tree,
                   region_acronyms, obj_files>>

NextStructures ==
    \/ GetStructureAncestors
    \/ GetStructureDescendants
    \/ GetStructureParent

SpecStructures == InitStructures /\ [][NextStructures]_vars

-----------------------------------------------------------------------------
(* Coordinate lookup: C8, C9, C10                                          *)

IsLookup == op = "get_structure_from_coordinates"

\* the voxel index lies inside the volume on every axis
InBounds(voxel) ==
    /\ voxel[1] \in 0..(DimX - 1)
    /\ voxel[2] \in 0..(DimY - 1)
    /\ voxel[3] \in 0..(DimZ - 1)

\* n is an integer nearest to the coordinate c divided by the resolution
Nearest(c, n) ==
    LET d == c - n * CoordStep
    IN  2 * d <= CoordStep /\ 2 * d >= 0 - CoordStep

\* the region whose id the volume stores at an in-bounds voxel
RegionAt(voxel, just_acronym) ==
    LET s == get_structures_by_id(structure_tree, annotated_volume[voxel])
    IN  IF IsNone(s) THEN NoneV
        ELSE IF just_acronym THEN Str(s.v.acronym) ELSE s

\* C8 (as claimed): a lookup of a point whose voxel index is outside the
\* volume on some axis, below 0 included, returns None and does not raise.
C8_OutOfBoundsIsNull ==
    IsLookup /\ ~InBounds(VoxelOf(p0)) => status = "ok" /\ IsNone(ret)

\* C9: a lookup of a point whose voxel index is inside the volume takes, on
\* every axis, an integer nearest to coordinate / 25 and returns the region
\* whose id is stored at exactly that voxel: the acronym with just_acronym,
\* the whole record without, None when the tree has no such id.
C9_InBoundsLookup ==
    IsLookup /\ InBounds(VoxelOf(p0)) =>
        /\ \A i \in 1..3 : Nearest(p0[i], VoxelOf(p0)[i])
        /\ status = "ok"
        /\ ret = RegionAt(<<VoxelOf(p0)[1], VoxelOf(p0)[2], VoxelOf(p0)[3]>>,
                          args.just_acronym)

\* a lookup of a point half way between two voxel centres found a region
C9_Witness ==
    /\ IsLookup
    /\ InBounds(VoxelOf(p0))
    /\ p0[1] % CoordStep # 0
    /\ 2 * (p0[1] % CoordStep) = CoordStep
    /\ ret.t = "str"

\* C10: a lookup changes neither the point, nor the annotation volume, nor
\* the structure tree, and a second lookup of the same point with the same
\* just_acronym returns what the first returned.
C10_LookupIdempotent ==
    [][ op' = "get_structure_from_coordinates" =>
          /\ p0' = p0
          /\ annotated_volume' = annotated_volume
          /\ structure_tree' = structure_tree
          /\ (IsLookup /\ args.just_acronym = args'.just_acronym => ret' = ret)
      ]_vars

\* the same point was looked up twice, the same way, and a region came back
C10_Witness ==
    /\ IsLookup
    /\ prev # NoCall
    /\ prev.just_acronym = args.just_acronym
    /\ prev.ret = ret
    /\ ~IsNone(ret)

-----------------------------------------------------------------------------
(* get_neurons: C3, C4, C5, C6, C7                                         *)

IsGetNeurons == op = "get_neurons"

\* the neurons handed to the call, as a sequence
NeuronsIn == AsNeuronList(args.neurons)

\* the record returned for the i-th neuron, by a call that returned
RecordOut(i) ==
    IF Len(NeuronsIn) = 1 THEN ret.v[1].v ELSE ret.v[1].v[i].v

\* the actors whose color the call set, and the color an actor was left with
ColoredActors == {effects.colored[j].actor : j \in DOMAIN effects.colored}

LastColor(act) ==
    LET js == {j \in DOMAIN effects.colored : effects.colored[j].actor = act}
    IN  effects.colored[CHOOSE j \in js : \A k \in js : k <= j].c

\* a dict of meshes, its keys among ks
IsMeshDict(x, ks) ==
    /\ x.t = "dict"
    /\ Keys(x) \subseteq ks
    /\ \A k \in Keys(x) : x.v[k].t = "actor"

\* vtkplotter's merge(a, b): one mesh made of the meshes of both
merge(a, b) == ActorV(a.v \o b.v)

\* C3 (as claimed): for neurons given as dicts with a soma, the dendrites of
\* the normalized record are the apical part when only that is given, the
\* basal part when only that is given, and when both are given the call
\* succeeds and the dendrites are the merge of the two.
C3_DendritesFromApicalAndBasal ==
    ( /\ IsGetNeurons
      /\ args.color \in FewColorArgs
      /\ args.display_dendrites
      /\ \A i \in DOMAIN NeuronsIn :
            IsMeshDict(NeuronsIn[i], DictKeys) /\ "soma" \in Keys(NeuronsIn[i]) )
    => /\ status = "ok"
       /\ \A i \in DOMAIN NeuronsIn :
            LET d == NeuronsIn[i]
                apical == "apical_dendrites" \in Keys(d)
                basal == "basal_dendrites" \in Keys(d)
            IN  /\ apical /\ ~basal => RecordOut(i).dendrites = d.v["apical_dendrites"]
                /\ basal /\ ~apical => RecordOut(i).dendrites = d.v["basal_dendrites"]
                /\ apical /\ basal =>
                     RecordOut(i).dendrites = merge(d.v["apical_dendrites"],
                                                    d.v["basal_dendrites"])

\* every non-None part of a record is a mesh of the i-th neuron handed in
PartsOfNeuron(record, i) ==
    \A k \in {"soma", "axon", "dendrites"} :
        \/ IsNone(record[k])
        \/ /\ record[k].t = "actor"
           /\ \A m \in 1..Len(record[k].v) : record[k].v[m] \div 10 = i

\* the claim's example: one neuron, only a soma, nothing else displayed,
\* colored at random, by name, by colormap or by a per-part dict
SomaOnlyCall ==
    /\ args.neurons = Dict([k \in {"soma"} |-> Mesh(1, k)])
    /\ \/ IsNone(args.color)
       \/ args.color.t = "str"
       \/ args.color.t = "dict" /\ "soma" \in Keys(args.color)
    /\ ~args.display_axon
    /\ ~args.display_dendrites

EntryColor(entry, part) ==
    IF entry.t = "dict"
    THEN IF part \in Keys(entry) THEN entry.v[part] ELSE entry.v["soma"]
    ELSE entry

\* C5 (as claimed): with neurons that render and a color list of one entry
\* per neuron, all plain colors of one type or all dicts with a soma color,
\* the call succeeds and every present part of neuron i is left with the
\* color entry i gives it.
C5_ColorListPerNeuron ==
    ( /\ IsGetNeurons
      /\ args.color.t = "list"
      /\ Len(args.color.v) = Len(NeuronsIn)
      /\ Len(NeuronsIn) >= 1
      /\ \A i \in DOMAIN NeuronsIn : NeuronsIn[i] \in PlainNeurons(i)
      /\ \A i, j \in DOMAIN args.color.v : args.color.v[i].t = args.color.v[j].t
      /\ \A i \in DOMAIN args.color.v :
            args.color.v[i].t = "dict" => "soma" \in Keys(args.color.v[i]) )
    => /\ status = "ok"
       /\ \A i \in DOMAIN NeuronsIn : \A k \in {"soma", "axon", "dendrites"} :
            ~IsNone(RecordOut(i)[k]) =>
                /\ RecordOut(i)[k] \in ColoredActors
                /\ LastColor(RecordOut(i)[k]) = EntryColor(args.color.v[i], k)

\* the list mixes dicts with plain colors
MixesDicts(color) ==
    \E i, j \in DOMAIN color.v : color.v[i].t = "dict" /\ color.v[j].t # "dict"

\* C6: a color list (or tuple) whose length is not the number of neurons, or
\* that mixes per-part dicts with plain colors, makes the call raise
\* ValueError with no neuron normalized, no actor colored and the neurons
\* handed in untouched.
C6_BadColorListRaisesFirst ==
    ( /\ IsGetNeurons
      /\ IsSeq(args.color)
      /\ Len(args.color.v) # Len(NeuronsIn) \/ MixesDicts(args.color) )
    => /\ status = "ValueError"
       /\ IsNone(ret)
       /\ effects.neurons_actors = <<>>
       /\ effects.colored = <<>>
       /\ effects.neurons = NeuronsIn

\* a list of the right length mixing a plain color and a dict was refused
C6_Witness ==
    /\ IsGetNeurons
    /\ IsSeq(args.color)
    /\ Len(NeuronsIn) = 2
    /\ Len(args.color.v) = 2
    /\ MixesDicts(args.color)
    /\ status = "ValueError"

\* C7 (as claimed): with neurons given as dicts of soma, axon and dendrites
\* meshes, any of them missing, the call succeeds, a missing part is None in
\* the record, a displayed part that was given is that mesh, and the actors
\* colored are exactly the parts in the records.
C7_MissingPartsAccepted ==
    ( /\ IsGetNeurons
      /\ args.color \in FewColorArgs
      /\ \A i \in DOMAIN NeuronsIn :
            IsMeshDict(NeuronsIn[i], {"soma", "axon", "dendrites"}) )
    => /\ status = "ok"
       /\ \A i \in DOMAIN NeuronsIn :
            LET d == NeuronsIn[i]
                shown == [soma |-> TRUE, axon |-> args.display_axon,
                          dendrites |-> args.display_dendrites]
            IN  \A k \in {"soma", "axon", "dendrites"} :
                   RecordOut(i)[k] = IF k \in Keys(d) /\ shown[k] THEN d.v[k] ELSE NoneV
       /\ ColoredActors =
            { RecordOut(i)[k] : i \in DOMAIN NeuronsIn, k \in {"soma", "axon", "dendrites"} }
            \ {NoneV}

-----------------------------------------------------------------------------
(* Brain regions: C1, C2                                                   *)

IsGetBrainRegions == op = "get_brain_regions" /\ ~IsNone(region_acronyms)

\* len(brain_regions) once a lone region is made a list
RegionCount ==
    IF args.brain_regions.t = "list" THEN Len(args.brain_regions.v) ELSE 1

\* colors is a list of explicit colors, each a name or an rgb tuple
IsColorList ==
    /\ args.colors.t = "list"
    /\ \A i \in DOMAIN args.colors.v :
          /\ args.colors.v[i].t \in {"str", "tuple"}
          /\ check_colors(args.colors.v[i])

\* explicit-color mode: use_original_color off and no region in the VIP set
ExplicitColorMode ==
    /\ ~args.use_original_color
    /\ IsNone(args.VIP_regions)

\* C1: in get_brain_regions with N regions and a list of N explicit colors
\* (N >= 1, use_original_color off, no VIP region), the call succeeds and
\* every mesh loaded for the region at position i is given the supplied
\* color i, whether the colors are names or rgb tuples.
C1_ColorPerRegion ==
    (IsGetBrainRegions /\ ExplicitColorMode /\ IsColorList
        /\ RegionCount >= 1 /\ Len(args.colors.v) = RegionCount)
    => /\ status = "ok"
       /\ \A k \in DOMAIN effects.loads :
             effects.loads[k].obj.v.c = args.colors.v[effects.loads[k].i]

\* C2: get_brain_regions given N >= 1 regions and a list of colors, one per
\* region, whose length is not N raises ValueError, returns no actors
\* and loads no mesh, whatever the two lengths and whether the colors are
\* names or rgb tuples.
C2_ColorListLengthMismatch ==
    (IsGetBrainRegions /\ IsColorList
        /\ RegionCount >= 1 /\ Len(args.colors.v) # RegionCount)
    => /\ status = "ValueError"
       /\ IsNone(ret)
       /\ effects.loads = <<>>

-----------------------------------------------------------------------------
(* Colors of points: C11                                                   *)

\* the call was given a sequence of points, not one point
IsBatch ==
    /\ op = "get_colors_from_coordinates"
    /\ args.p0.t = "list"
    /\ \A i \in DOMAIN args.p0.v : args.p0.v[i].t = "list"

\* the single-point lookup of the i-th point of the batch
SingleLookup(i) ==
    get_structure_from_coordinates(annotated_volume, structure_tree,
                                   Coords(args.p0.v[i]), FALSE).ret

\* slot i of the result is the color of the region of point i, null
\* exactly when the lookup of point i is null
SlotMatches(i) ==
    /\ IsNone(ret.v[i]) <=> IsNone(SingleLookup(i))
    /\ ~IsNone(SingleLookup(i))
          => ret.v[i] = List([k \in 1..3 |-> Num(SingleLookup(i).v.rgb_triplet[k])])

\* C11: get_colors_from_coordinates on a sequence of points returns a
\* sequence of the same length whose slot i is the color of the region the
\* single-point lookup finds for point i, and is null exactly when that
\* lookup is null.
C11_BatchColors ==
    IsBatch
    => /\ status = "ok"
       /\ ret.t = "list"
       /\ Len(ret.v) = Len(args.p0.v)
       /\ \A i \in DOMAIN args.p0.v : SlotMatches(i)

-----------------------------------------------------------------------------
(* Hemispheres: C12, C13                                                   *)

IsMirror(k) == effects[k].op = "mirror_point_across_hemispheres"

IsHemisphere(k) ==
    effects[k].op \in {"get_hemisphere_from_point", "get_hemispere_from_point"}

\* C12: mirror_point_across_hemispheres turns the third coordinate z into
\* 2 * midline - z and leaves the other two coordinates as they were, and
\* mirroring a point twice gives back the point it was.
C12_MirrorIsReflection ==
    op \in {"mirror_point_across_hemispheres", "get_hemisphere_from_point",
            "get_hemispere_from_point"}
    => /\ \A k \in DOMAIN effects :
             IsMirror(k)
             => /\ effects[k].ret[3] = 2 * root_midpoint[3] - effects[k].point[3]
                /\ effects[k].ret[1] = effects[k].point[1]
                /\ effects[k].ret[2] = effects[k].point[2]
       /\ \A k \in DOMAIN effects :
             (k > 1 /\ IsMirror(k - 1) /\ IsMirror(k))
             => effects[k].ret = effects[k - 1].point

\* a point off the midline has been mirrored twice in a row
C12_Witness ==
    /\ op = "mirror_point_across_hemispheres"
    /\ Len(effects) >= 2
    /\ IsMirror(Len(effects) - 1)
    /\ effects[Len(effects) - 1].point[3] = 3000 * HalfUnits
    /\ p0[3] = 3000 * HalfUnits

\* C13: the hemisphere of a point is 'left' when its third coordinate is
\* below the midline of the root bounding box and 'right' when it is above,
\* and the mirror image of a point off the midline is in the other
\* hemisphere.
C13_HemisphereByMidline ==
    op \in {"mirror_point_across_hemispheres", "get_hemisphere_from_point",
            "get_hemispere_from_point"}
    => /\ \A k \in DOMAIN effects :
             IsHemisphere(k)
             => /\ effects[k].point[3] < root_midpoint[3]
                      => effects[k].ret = Str("left")
                /\ effects[k].point[3] > root_midpoint[3]
                      => effects[k].ret = Str("right")
       /\ \A k \in DOMAIN effects :
             (k > 2 /\ IsHemisphere(k - 2) /\ IsMirror(k - 1) /\ IsHemisphere(k)
                 /\ effects[k - 2].point[3] # root_midpoint[3])
             => effects[k].ret # effects[k - 2].ret

\* a point below the midline was classified, mirrored and classified again
C13_Witness ==
    /\ op = "get_hemisphere_from_point"
    /\ Len(effects) = 3
    /\ IsHemisphere(1) /\ IsMirror(2)
    /\ effects[1].point[3] = root_midpoint[3] - 1
    /\ effects[1].ret = Str("left")
    /\ ret = Str("right")

-----------------------------------------------------------------------------
(* Tractography: C14, C15, C16                                             *)

IsGetTractography == op = "get_tractography"

\* the records passed, a lone record taken as a list of one
TractsIn ==
    IF args.tractography.t = "dict" THEN <<args.tractography>>
    ELSE args.tractography.v

\* the opacity resolved for the k-th record: others_alpha when coloring by
\* target region and none of its injection structures is a VIP region,
\* the configured opacity of tractography otherwise
Opacity(k) ==
    IF args.color_by = "target_region"
       /\ ~is_any_item_in_list(InjStructures(args, structure_tree, TractsIn[k]).acronyms,
                               args.VIP_regions.v)
    THEN args.others_alpha
    ELSE args.TRACTO_ALPHA

\* the k-th record is not transparent and passes the test of its
\* injection coordinates
Survives(k) ==
    /\ Opacity(k) # Num(0)
    /\ ExtractRegion(args, annotated_volume, structure_tree, TractsIn[k]) = "keep"

\* the kinds of geometry due, in order, for the records from the k-th on
RECURSIVE GeometryDue(_)
GeometryDue(k) ==
    IF k > Len(TractsIn) THEN <<>>
    ELSE (IF ~Survives(k) THEN <<>>
          ELSE IF args.display_injection_volume
          THEN <<<<"sphere", k>>, <<"tube", k>>>>
          ELSE <<<<"tube", k>>>>) \o GeometryDue(k + 1)

\* C14: the list get_tractography returns holds, in the order of the
\* records, for each record that survives one sphere at its injection
\* site (only with display_injection_volume) and then one tube through its
\* path points, and nothing for a record whose opacity resolves to 0.
C14_GeometryPerRecord ==
    (IsGetTractography /\ status = "ok")
    => /\ [n \in DOMAIN ret.v |-> <<ret.v[n].t, ret.v[n].v.i>>] = GeometryDue(1)
       /\ \A n \in DOMAIN ret.v :
             LET t == TractsIn[ret.v[n].v.i].v
             IN  /\ Opacity(ret.v[n].v.i) # Num(0)
                 /\ ret.v[n].t = "sphere" => ret.v[n].v.pos = t.injection_coordinates
                 /\ ret.v[n].t = "tube"
                       => ret.v[n].v.points = [j \in DOMAIN t.path.v |-> t.path.v[j].v.coord]

\* of two records the first is transparent and left out, the second is
\* rendered as a sphere and a tube
C14_Witness ==
    /\ IsGetTractography /\ status = "ok"
    /\ args.display_injection_volume
    /\ Len(TractsIn) = 2
    /\ Opacity(1) = Num(0)
    /\ Len(ret.v) = 2
    /\ ret.v[1].t = "sphere" /\ ret.v[1].v.i = 2
    /\ ret.v[2].t = "tube" /\ ret.v[2].v.i = 2

\* the k-th record is a VIP record: its source structure is in VIP_regions
\* or, with include_all_inj_regions, one of its injection structures is
IsVipTract(k) ==
    IF args.include_all_inj_regions
    THEN is_any_item_in_list(Abbreviations(TractsIn[k]), args.VIP_regions.v)
    ELSE In(TractsIn[k].v.structure_abbrev, args.VIP_regions)

\* C15: get_tractography with color_by = 'target_region' gives every VIP
\* record one and the same color (VIP_color when it is passed) and every
\* other record others_color, whether or not VIP_color is passed.
C15_TargetRegionColors ==
    (IsGetTractography /\ status = "ok" /\ args.color_by = "target_region")
    => /\ DOMAIN effects.COLORS = DOMAIN TractsIn
       /\ \A k \in DOMAIN TractsIn :
             /\ ~IsVipTract(k) => effects.COLORS[k] = args.others_color
             /\ (IsVipTract(k) /\ ~IsNone(args.VIP_color))
                   => effects.COLORS[k] = args.VIP_color
             /\ IsVipTract(k)
                   => /\ effects.COLORS[k] # args.others_color
                      /\ \A j \in DOMAIN TractsIn :
                            IsVipTract(j) => effects.COLORS[j] = effects.COLORS[k]

\* the structure re-derived from the injection coordinates of the k-th
\* record: the structure get_structure_parent gives for the region at the
\* voxel of the coordinates, None when the coordinates are outside the
\* volume or the voxel holds no structure of the tree
Rederived(k) ==
    LET voxel == VoxelOf(Coords(TractsIn[k].v.injection_coordinates))
        region == RegionAt(<<voxel[1], voxel[2], voxel[3]>>, FALSE)
    IN  IF ~InBounds(voxel) THEN NoneV
        ELSE IF IsNone(region) THEN NoneV
        ELSE get_structure_parent(structure_tree, Str(region.v.acronym)).s

\* C16: with extract_region_from_inj_coords a list of acronyms, the list
\* get_tractography returns holds geometry only of records whose structure
\* re-derived from the injection coordinates is in that list; a record
\* whose coordinates map to no region contributes none.
C16_AllowListFilters ==
    (IsGetTractography /\ status = "ok"
        /\ args.extract_region_from_inj_coords.t = "list")
    => \A n \in DOMAIN ret.v :
          /\ ~IsNone(Rederived(ret.v[n].v.i))
          /\ In(Str(Rederived(ret.v[n].v.i).v.acronym),
                args.extract_region_from_inj_coords)

-----------------------------------------------------------------------------
(* Brain regions: C17, C18, C19, C20                                       *)

\* brain_regions once a lone region is made a list
RegionsIn ==
    IF args.brain_regions.t = "list" THEN args.brain_regions.v
    ELSE <<args.brain_regions>>

\* the arguments are valid: every region is a number or a string, the
\* hemisphere is None, 'left' or 'right', and the colors pass their check
ValidRegionCall ==
    /\ \A i \in DOMAIN RegionsIn : RegionsIn[i].t \in {"num", "str"}
    /\ IsNone(args.hemisphere) \/ Lower(args.hemisphere.v) \in {"left", "right"}
    /\ CheckRegionColors(args.colors, RegionCount).status = "ok"

\* the regions whose mesh the call downloaded
Downloaded ==
    {effects.downloads[k] : k \in {j \in DOMAIN effects.downloads :
                                      effects.downloads[j] \notin args.unavailable}}

\* the mesh of a region can be had: its file was there before the call or
\* its download works, and the file loads
Obtainable(r) ==
    /\ r \in (obj_files \ Downloaded) \/ r \notin args.unavailable
    /\ r \notin args.unreadable

\* the acronyms requested that the atlas knows, does not ignore and has a
\* mesh for
Renderable ==
    {RegionsIn[i].v : i \in {j \in DOMAIN RegionsIn :
                                /\ RegionsIn[j].t = "str"
                                /\ In(RegionsIn[j], region_acronyms)
                                /\ RegionsIn[j].v \notin ignore_regions
                                /\ Obtainable(RegionsIn[j].v)}}

\* C17: get_brain_regions with valid arguments does not raise when a
\* region of the batch is unknown or its mesh cannot be downloaded: that
\* region is left out, the regions before and after it are processed, and
\* the mapping returned holds exactly the requested regions that are
\* known, not ignored and have an obtainable mesh.
C17_BadRegionsSkipped ==
    (IsGetBrainRegions /\ ValidRegionCall)
    => /\ status = "ok"
       /\ ret.t = "dict"
       /\ Keys(ret) = Renderable

\* an unknown region and one whose download fails come before a region
\* that is rendered
C17_Witness ==
    /\ IsGetBrainRegions /\ ValidRegionCall
    /\ Len(RegionsIn) = 2
    /\ RegionsIn[1] \in {Str("ZZZ"), Str("VPM")}
    /\ RegionsIn[1].v = "VPM" => "VPM" \in args.unavailable
    /\ RegionsIn[2] = Str("MOs")
    /\ Keys(ret) = {"MOs"}

\* the VIP subset of the call
VipRegions ==
    IF IsNone(args.VIP_regions) THEN DEFAULT_VIP_REGIONS ELSE args.VIP_regions

\* the distinguished color of the VIP regions
VipColor ==
    IF IsNone(args.VIP_color) THEN Cfg("DEFAULT_VIP_COLOR") ELSE args.VIP_color

\* the alpha configured for the other regions
OthersAlpha ==
    IF IsNone(args.alpha) THEN Cfg("DEFAULT_STRUCTURE_ALPHA") ELSE args.alpha

\* C19: in get_brain_regions every rendered region of the VIP subset is
\* given the VIP color and alpha 1, and every other rendered region the
\* configured alpha (the alpha argument, or the default structure alpha),
\* wherever the VIP regions stand in the batch.
C19_VipColorAndAlpha ==
    IsGetBrainRegions
    => \A k \in DOMAIN effects.loads :
          LET mesh == effects.loads[k].obj.v
          IN  IF In(Str(effects.loads[k].region), VipRegions)
              THEN mesh.c = VipColor /\ mesh.alpha = Num(1)
              ELSE mesh.alpha = OthersAlpha

\* a region of the batch is neither a number nor a string
HasBadRegion == \E i \in DOMAIN RegionsIn : RegionsIn[i].t \notin {"num", "str"}

\* the hemisphere is a string other than 'left' and 'right'
HasBadHemisphere ==
    ~IsNone(args.hemisphere) /\ Lower(args.hemisphere.v) \notin {"left", "right"}

\* tractography is no dictionary and no list of dictionaries
HasBadTractography ==
    \/ args.tractography.t \notin {"list", "dict"}
    \/ /\ args.tractography.t = "list"
       /\ \E k \in DOMAIN args.tractography.v : args.tractography.v[k].t # "dict"

\* C20: invalid arguments raise ValueError before any side effect: in
\* get_brain_regions a region of the wrong type anywhere in the batch, or
\* an invalid hemisphere string, raises before any mesh is downloaded or
\* loaded; in get_tractography a tractography argument of the wrong type
\* or, with records to render, an unrecognized color_by raises before any
\* geometry is made.
C20_InvalidArgumentsRaiseFirst ==
    /\ (IsGetBrainRegions /\ (HasBadRegion \/ HasBadHemisphere)
           /\ CheckRegionColors(args.colors, RegionCount).status = "ok")
       => /\ status = "ValueError"
          /\ effects.downloads = <<>>
          /\ effects.loads = <<>>
    /\ (IsGetTractography
           /\ args.tractography # List(<<>>)
           /\ (HasBadTractography
                  \/ args.color_by \notin {"manual", "region", "target_region"}))
       => /\ status = "ValueError"
          /\ effects.made = <<>>

\* the call that ends this step downloads only meshes whose file was not
\* there when it began, and none twice once a download has worked
DownloadsOnlyMissing ==
    /\ \A k \in DOMAIN effects'.downloads : effects'.downloads[k] \notin obj_files
    /\ \A j, k \in DOMAIN effects'.downloads :
          (j < k /\ effects'.downloads[j] = effects'.downloads[k])
          => effects'.downloads[j] \in args'.unavailable

\* _check_obj_file, called for a region whose file is there, returns True
\* and asks nothing of the provider
PresentFileIsSuccess ==
    (op' = "_check_obj_file" /\ args'.region \in obj_files)
    => /\ status' = "ok"
       /\ ret' = Bool(TRUE)
       /\ effects'.downloads = <<>>

\* C18: over any sequence of calls of get_brain_regions and
\* _check_obj_file, a mesh is downloaded only when its file does not
\* exist: a file once there stays, no later call downloads it again, and
\* a call that finds it reports success without asking the provider.
C18_DownloadOnlyWhenMissing ==
    [][op' \in {"get_brain_regions", "_check_obj_file"}
          => /\ DownloadsOnlyMissing
             /\ PresentFileIsSuccess
             /\ obj_files \subseteq obj_files']_vars

\* _check_obj_file finds the file an earlier call downloaded
C18_Witness ==
    /\ op = "_check_obj_file"
    /\ args.unavailable = CachedAcronyms
    /\ args.region \in obj_files
    /\ ret = Bool(TRUE)
    /\ effects.downloads = <<>>

-----------------------------------------------------------------------------
(* The two hemisphere classifiers: C23                                     *)

\* C23: get_hemisphere_from_point and get_hemispere_from_point, called one
\* after the other on the same point, return the same label, also for a
\* point whose third coordinate is exactly the midline.
C23_ClassifiersAgree ==
    op \in {"get_hemisphere_from_point", "get_hemispere_from_point"}
    => \A k \in DOMAIN effects :
          (k > 1 /\ IsHemisphere(k - 1) /\ IsHemisphere(k)
              /\ effects[k - 1].point = effects[k].point)
          => effects[k].ret = effects[k - 1].ret

-----------------------------------------------------------------------------
(* Parents, ancestors and descendants of lists of regions: C21, C22        *)

\* the regions of the call, when they came as a list
RegionList == IF args.regions.t = "list" THEN args.regions.v ELSE <<>>

\* the single-acronym form of get_structure_parent returns for every
\* acronym of the list
ParentsExist ==
    \A i \in DOMAIN RegionList :
        get_structure_parent(structure_tree, RegionList[i]).status = "ok"

\* C21: get_structure_parent of a list of N acronyms returns a list of
\* exactly N parents, the i-th being what get_structure_parent returns for
\* the i-th acronym alone.
C21_ParentPerAcronym ==
    (op = "get_structure_parent" /\ args.regions.t = "list" /\ ParentsExist)
    => /\ status = "ok"
       /\ ret.t = "list"
       /\ Len(ret.v) = Len(RegionList)
       /\ \A i \in DOMAIN RegionList :
              ret.v[i] = get_structure_parent(structure_tree, RegionList[i]).s

\* the two flags the caller asked for; get_structure_descendants asks for
\* descendants only
CallerAncestors == IF op = "get_structure_descendants" THEN Bool(FALSE) ELSE args.ancestors
CallerDescendants == IF op = "get_structure_descendants" THEN Bool(TRUE) ELSE args.descendants

\* what the single-region form does for the i-th region of the list, with
\* the caller's flags
SingleSearch(i) ==
    get_structure_ancestors(structure_tree, RegionList[i], CallerAncestors,
                            CallerDescendants)

\* C22: get_structure_ancestors and get_structure_descendants of a list of
\* regions make one tree search per region, in order, each with the
\* caller's ancestors and descendants flags, and the i-th entry returned is
\* what the single-region form returns for the i-th region with these flags.
C22_SearchPerRegion ==
    (/\ op \in {"get_structure_ancestors", "get_structure_descendants"}
     /\ args.regions.t = "list"
     /\ \A i \in DOMAIN RegionList : Known(structure_tree, RegionList[i]))
    => /\ status = "ok"
       /\ ret.t = "list"
       /\ Len(ret.v) = Len(RegionList)
       /\ effects = [i \in DOMAIN RegionList |-> SingleSearch(i).effects[1]]
       /\ \A i \in DOMAIN RegionList : ret.v[i] = SingleSearch(i).ret

====
